---- MODULE Spec2Model ----
(***************************************************************************)
(* Session guard of noukaza/auth (src/src/session/guard.ts, second class   *)
(* of the file, lines 503-1097): per-request authentication through the    *)
(* session store and, failing that, a remember-me token cookie.            *)
(*                                                                         *)
(* Time is counted in seconds.  User ids are drawn from truthy values (the *)
(* code tests the session value with `if (loggedInUserId)`).               *)
(* Random secrets are modelled as fresh numbers: two generated secrets     *)
(* never coincide and never equal a secret presented before.               *)
(***************************************************************************)
EXTENDS Integers, Sequences, FiniteSets, TLC

\* ------------------------------------------------------------- bounds ---
NumGuards == 2      \* guard instances (one per request)
MaxTicks == 3       \* clock advances in one behaviour
MaxCalls == 2       \* authenticate()/check() calls on one guard instance
LongCalls == 3      \* calls on the guard instance that is followed through a logout

\* -------------------------------------------------- program constants ---
Grace == 60                \* updatedAtWithBuffer: getSeconds() + 60
TokenAge == 63072000       \* rememberMeTokenAge || '2years'
ShortAge == 60             \* RememberMeToken.create(user.id, '1 minute', 'web')

Guards == 1..NumGuards
Names == {"web", "api"}
UserIds == {"u1", "u2"}
NoUser == "none"
SeriesIds == {"s1", "s2"}
TimeSteps == {1, Grace}

\* error kinds
InvalidAuthSession == "E_INVALID_AUTH_SESSION"
RuntimeException == "RuntimeException"
ProviderError == "ProviderError"
InvalidCredentials == "E_INVALID_CREDENTIALS"

\* ------------------------------------------------ RememberMeToken --------
NoRow == [absent |-> TRUE]
NoCookie == <<>>
NoDecoded == [malformed |-> TRUE]

\* digest of a secret: one-way, injective on the modelled secrets
Hash(value) == <<"sha256", value>>

\* cookie wire format: the two parts of `series.value`
Encode(series, value) == <<series, value>>

decode(cookie) ==
  IF Len(cookie) = 2 /\ cookie[1] \in SeriesIds
  THEN [series |-> cookie[1], value |-> cookie[2]]
  ELSE NoDecoded

\* token.verify(value): digest(value) against the stored hash
verify(token, value) == token.hash = Hash(value)

\* mutant: refresh moves the dates and keeps the secret the row was minted with
refreshDatesOnly(token, ttl, secret, t) ==
  [token EXCEPT !.expiresAt = t + ttl, !.updatedAt = t]

\* token.refresh(ttl): new secret, new hash, new expiry; series preserved
refresh(token, ttl, secret, t) ==
  [token EXCEPT !.value = secret, !.hash = Hash(secret),
                !.expiresAt = t + ttl, !.updatedAt = t]

\* RememberMeToken.create(userId, ttl, guardName) with the generated parts
create(userId, ttl, guardName, series, secret, t) ==
  [series |-> series, userId |-> userId, guard |-> guardName,
   hash |-> Hash(secret), value |-> secret,
   createdAt |-> t, updatedAt |-> t, expiresAt |-> t + ttl]

\* token.value.release(): the transportable string placed in the cookie
release(token) == Encode(token.series, token.value)

\* a token is expired from its expiry instant on
isExpired(token, t) == t >= token.expiresAt

\* persisted row shape: the secret value is not part of it
toRow(token) ==
  [series |-> token.series, userId |-> token.userId, guard |-> token.guard,
   hash |-> token.hash, createdAt |-> token.createdAt,
   updatedAt |-> token.updatedAt, expiresAt |-> token.expiresAt]

\* token instance built from a persisted row: it carries no secret (0)
fromRow(row) ==
  [series |-> row.series, userId |-> row.userId, guard |-> row.guard,
   hash |-> row.hash, value |-> 0, createdAt |-> row.createdAt,
   updatedAt |-> row.updatedAt, expiresAt |-> row.expiresAt]

VARIABLES
  now,          \* wall clock (new Date())
  ticks,        \* number of clock advances so far
  callLimit,    \* calls a request's handler makes on its guard, at most
  users,        \* ids the user provider can resolve
  tokens,       \* token provider: series -> persisted row (with value 0) or NoRow
  nextSecret,   \* next fresh random secret
  session,      \* ctx -> [exists, sessionId, data: key name -> user id]
  reqCookies,   \* ctx -> guard name -> request cookie remember_<name>
  resCookies,   \* ctx -> guard name -> response cookie remember_<name>
  guard,        \* guard instance -> its fields
  frame,        \* guard instance -> the call in flight and its locals
  history,      \* guard instance -> outcomes of the finished calls
  events,       \* guard instance -> events emitted on the emitter
  calls         \* guard instance -> counts of collaborator calls

vars == <<now, ticks, callLimit, users, tokens, nextSecret, session, reqCookies,
          resCookies, guard, frame, history, events, calls>>

envVars == <<now, ticks, callLimit, users, tokens, nextSecret>>
ctxVars == <<session, reqCookies, resCookies>>

\* ------------------------------------------------ collaborators ---------
\* mutant: the lookup returns expired rows too
getTokenBySeriesExpired(series) ==
  IF tokens[series] = NoRow THEN NoRow ELSE fromRow(tokens[series])

\* token provider: a row is found by series unless it is missing or expired
getTokenBySeries(series) ==
  IF tokens[series] = NoRow \/ isExpired(tokens[series], now)
  THEN NoRow
  ELSE fromRow(tokens[series])

\* token provider: UPDATE ... WHERE series = ?  (no row, no effect)
updateTokenBySeries(series, token) ==
  IF tokens[series] = NoRow
  THEN tokens
  ELSE [tokens EXCEPT ![series] =
          [@ EXCEPT !.hash = token.hash, !.updatedAt = token.updatedAt,
                    !.expiresAt = token.expiresAt]]

\* token provider: INSERT of a new row
createToken(token) == [tokens EXCEPT ![token.series] = toRow(token)]

\* token provider: DELETE ... WHERE series = ?
deleteTokenBySeries(series) == [tokens EXCEPT ![series] = NoRow]

\* user provider: verifyCredentials(uid, password); every account has the same
\* password, and the uid of an account is its id
Passwords == {"secret", "wrong"}
providerVerifyCredentials(uid, password) ==
  IF uid \in users /\ password = "secret" THEN uid ELSE NoUser

\* mutant: the user provider resolves an id whose account is gone
findByIdStale(id) == id

\* user provider: findById
findById(id) == IF id \in users THEN id ELSE NoUser

\* ------------------------------------------------ SessionGuard ----------
\* mutant: the session key does not depend on the guard's name
sessionKeyNameShared(g) == <<"auth", "web">>

\* mutant: the cookie key does not depend on the guard's name
rememberMeKeyNameShared(g) == <<"remember", "web">>

sessionKeyName(g) == <<"auth", guard[g].name>>
rememberMeKeyName(g) == <<"remember", guard[g].name>>
SessionKeys == {<<"auth", n>> : n \in Names}
CookieKeys == {<<"remember", n>> : n \in Names}

Untouched == [kind |-> "untouched", value |-> NoCookie]
Cleared == [kind |-> "cleared", value |-> NoCookie]
SetCookie(value) == [kind |-> "set", value |-> value]

IdleFrame ==
  [pc |-> "idle", op |-> "none", loggedInUserId |-> NoUser,
   rememberMeCookie |-> NoCookie, decodedToken |-> NoDecoded,
   found |-> NoRow,       \* the token as getTokenBySeries returned it
   token |-> NoRow,       \* the token instance, refreshed in place
   currentTime |-> 0,
   user |-> NoUser,       \* login(user, remember); the uid or id of a login
   remember |-> FALSE,
   password |-> "none",   \* verifyCredentials(uid, password)
   client |-> <<>>]       \* what authenticateAsClient built

NoCalls ==
  [session |-> 0, findById |-> 0, cookieRead |-> 0, cookieWrite |-> 0,
   getTokenBySeries |-> 0, updateTokenBySeries |-> 0]

NewGuard(name, ctx, provider) ==
  [name |-> name, ctx |-> ctx, rememberMeTokenProvider |-> provider,
   authenticationAttempted |-> FALSE, isLoggedOut |-> FALSE,
   isAuthenticated |-> FALSE, viaRemember |-> FALSE, user |-> NoUser]

\* mutant: the event does not name the token
EventNoToken(type, token) == [type |-> type, token |-> "none"]

Event(type, token) == [type |-> type, token |-> token]
Called(g, what) == [calls EXCEPT ![g][what] = @ + 1]

\* mutant: check() answers false to every error
ObservedSwallow(op, kind, value) ==
  IF op = "check"
  THEN [op |-> op, outcome |-> "return",
        value |-> IF kind = "return" THEN "true" ELSE "false"]
  ELSE [op |-> op, outcome |-> kind, value |-> value]

\* what the caller of `op` observes when authenticate() ends with (kind, value)
Observed(op, kind, value) ==
  IF op = "check"
  THEN IF kind = "return"
       THEN [op |-> op, outcome |-> "return", value |-> "true"]
       ELSE IF value = InvalidAuthSession
            THEN [op |-> op, outcome |-> "return", value |-> "false"]
            ELSE [op |-> op, outcome |-> "raise", value |-> value]
  ELSE [op |-> op, outcome |-> kind, value |-> value]

Finished(g, op, kind, value) ==
  [history EXCEPT ![g] = Append(@, Observed(op, kind, value))]

\* mutant: the session's user id is never honoured
loggedInNever(loggedInUserId) == FALSE

\* mutant: a session id is honoured only while its account exists
loggedInIfKnown(loggedInUserId) == loggedInUserId \in users

\* `if (loggedInUserId)`
loggedIn(loggedInUserId) == loggedInUserId # NoUser

\* mutant: the missing token provider goes unnoticed
cookieMissing(g, rememberMeCookie) == rememberMeCookie = NoCookie

\* `!rememberMeCookie || !this.#rememberMeTokenProvider`
cookieUnusable(g, rememberMeCookie) ==
  rememberMeCookie = NoCookie \/ ~guard[g].rememberMeTokenProvider

\* mutant: the token's guard is not compared with the guard's name
tokenRejectedAnyGuard(g, token, decodedToken) ==
  token = NoRow \/ ~verify(token, decodedToken.value)

\* mutant: the presented value is not verified against the stored hash
tokenRejectedNoVerify(g, token, decodedToken) ==
  token = NoRow \/ token.guard # guard[g].name

\* `!token || !token.verify(decodedToken.value) || token.guard !== this.#name`
tokenRejected(g, token, decodedToken) ==
  \/ token = NoRow
  \/ ~verify(token, decodedToken.value)
  \/ token.guard # guard[g].name

\* mutant: the token is refreshed at the very end of the window already
needsRefreshInclusive(token, currentTime) == token.updatedAt + Grace <= currentTime

\* mutant: the token is refreshed at every use
needsRefreshAlways(token, currentTime) == TRUE

\* mutant: the token is never refreshed
needsRefreshNever(token, currentTime) == FALSE

\* `updatedAtWithBuffer < currentTime`
needsRefresh(token, currentTime) == token.updatedAt + Grace < currentTime

Ops == {"authenticate", "check"}
CanCall(g) == frame[g].pc = "idle" /\ Len(history[g]) < callLimit

\* #authenticationFailed: emit authentication_failed, then throw
authenticationFailed(g, op) ==
  /\ events' = [events EXCEPT ![g] =
                  Append(@, Event("authentication_failed", "none"))]
  /\ history' = Finished(g, op, "raise", InvalidAuthSession)
  /\ frame' = [frame EXCEPT ![g].pc = "idle"]

\* mutant: a call on an attempted guard announces the attempt again
AuthCachedEmits(g, op) ==
  /\ CanCall(g)
  /\ guard[g].authenticationAttempted
  /\ history' = IF guard[g].user # NoUser
                THEN Finished(g, op, "return", guard[g].user)
                ELSE Finished(g, op, "raise", InvalidAuthSession)
  /\ frame' = [frame EXCEPT ![g].op = op]
  /\ events' = [events EXCEPT ![g] =
                  Append(@, Event("authentication_attempted", "none"))]
  /\ UNCHANGED <<envVars, ctxVars, guard, calls>>

\* authenticate(), already attempted: `return this.getUserOrFail()`
AuthCached(g, op) ==
  /\ CanCall(g)
  /\ guard[g].authenticationAttempted
  /\ history' = IF guard[g].user # NoUser
                THEN Finished(g, op, "return", guard[g].user)
                ELSE Finished(g, op, "raise", InvalidAuthSession)
  /\ frame' = [frame EXCEPT ![g].op = op]
  /\ UNCHANGED <<envVars, ctxVars, guard, events, calls>>

\* authenticate() or check() called while an earlier authenticate() on the guard
\* is suspended at an await: authenticationAttempted is set already, so
\* `return this.getUserOrFail()` answers from what the guard holds at that point
InFlight == {"findSessionUser", "getToken", "findTokenUser", "updateToken"}

AuthReentrant(g, op) ==
  /\ frame[g].pc \in InFlight
  /\ Len(history[g]) + 1 < callLimit
  /\ guard[g].authenticationAttempted
  /\ history' = IF guard[g].user # NoUser
                THEN Finished(g, op, "return", guard[g].user)
                ELSE Finished(g, op, "raise", InvalidAuthSession)
  /\ UNCHANGED <<envVars, ctxVars, guard, frame, events, calls>>

\* authenticate(), first call, ctx without session: #getSession throws
AuthNoSession(g, op) ==
  /\ CanCall(g)
  /\ ~guard[g].authenticationAttempted
  /\ ~session[guard[g].ctx].exists
  /\ guard' = [guard EXCEPT ![g].authenticationAttempted = TRUE]
  /\ history' = Finished(g, op, "raise", RuntimeException)
  /\ frame' = [frame EXCEPT ![g].op = op]
  /\ UNCHANGED <<envVars, ctxVars, events, calls>>

\* authenticate(), first call, up to its first await:
\* mark attempted, emit, read the session, read and decode the cookie
AuthBegin(g, op) ==
  LET c == guard[g].ctx
      loggedInUserId == session[c].data[sessionKeyName(g)]
      rememberMeCookie == reqCookies[c][rememberMeKeyName(g)]
      decodedToken == decode(rememberMeCookie)
      attempted == Append(events[g], Event("authentication_attempted", "none"))
  IN
  /\ CanCall(g)
  /\ ~guard[g].authenticationAttempted
  /\ session[c].exists
  /\ guard' = [guard EXCEPT ![g].authenticationAttempted = TRUE]
  /\ UNCHANGED <<envVars, ctxVars>>
  /\ IF loggedIn(loggedInUserId)
     THEN /\ frame' = [frame EXCEPT ![g] =
                         [IdleFrame EXCEPT !.pc = "findSessionUser", !.op = op,
                                           !.loggedInUserId = loggedInUserId]]
          /\ events' = [events EXCEPT ![g] = attempted]
          /\ calls' = Called(g, "session")
          /\ UNCHANGED history
     ELSE IF cookieUnusable(g, rememberMeCookie) \/ decodedToken = NoDecoded
     THEN /\ events' = [events EXCEPT ![g] =
                          Append(attempted, Event("authentication_failed", "none"))]
          /\ history' = Finished(g, op, "raise", InvalidAuthSession)
          /\ frame' = [frame EXCEPT ![g] =
                         [IdleFrame EXCEPT !.op = op,
                                           !.loggedInUserId = loggedInUserId,
                                           !.rememberMeCookie = rememberMeCookie]]
          /\ calls' = [calls EXCEPT ![g].session = @ + 1, ![g].cookieRead = @ + 1]
     ELSE /\ frame' = [frame EXCEPT ![g] =
                         [IdleFrame EXCEPT !.pc = "getToken", !.op = op,
                                           !.loggedInUserId = loggedInUserId,
                                           !.rememberMeCookie = rememberMeCookie,
                                           !.decodedToken = decodedToken]]
          /\ events' = [events EXCEPT ![g] = attempted]
          /\ calls' = [calls EXCEPT ![g].session = @ + 1, ![g].cookieRead = @ + 1]
          /\ UNCHANGED history

\* a provider call rejects (I/O failure): the error leaves authenticate() as is
ProviderThrows(g) ==
  /\ history' = Finished(g, frame[g].op, "raise", ProviderError)
  /\ frame' = [frame EXCEPT ![g].pc = "idle"]

\* mutant: the session path cycles the session identifier as the remember-me
\* path does
AuthFindSessionUserRegenerates(g, ok) ==
  LET c == guard[g].ctx
      providerUser == findById(session[c].data[sessionKeyName(g)])
  IN
  /\ frame[g].pc = "findSessionUser"
  /\ calls' = Called(g, "findById")
  /\ UNCHANGED <<envVars, reqCookies, resCookies>>
  /\ IF ~ok
     THEN ProviderThrows(g) /\ UNCHANGED <<guard, events, session>>
     ELSE IF providerUser = NoUser
     THEN authenticationFailed(g, frame[g].op) /\ UNCHANGED <<guard, session>>
     ELSE /\ session' = [session EXCEPT ![c].sessionId = @ + 1]
          /\ guard' = [guard EXCEPT ![g].user = providerUser,
                                    ![g].isAuthenticated = TRUE,
                                    ![g].isLoggedOut = FALSE,
                                    ![g].viaRemember = FALSE]
          /\ events' = [events EXCEPT ![g] =
                          Append(@, Event("authentication_succeeded", "none"))]
          /\ history' = Finished(g, frame[g].op, "return", providerUser)
          /\ frame' = [frame EXCEPT ![g].pc = "idle"]

\* session path: `await findById(loggedInUserId)` and what follows
AuthFindSessionUser(g, ok) ==
  LET c == guard[g].ctx
      providerUser == findById(session[c].data[sessionKeyName(g)])
  IN
  /\ frame[g].pc = "findSessionUser"
  /\ calls' = Called(g, "findById")
  /\ UNCHANGED <<envVars, ctxVars>>
  /\ IF ~ok
     THEN ProviderThrows(g) /\ UNCHANGED <<guard, events>>
     ELSE IF providerUser = NoUser
     THEN authenticationFailed(g, frame[g].op) /\ UNCHANGED guard
     ELSE /\ guard' = [guard EXCEPT ![g].user = providerUser,
                                    ![g].isAuthenticated = TRUE,
                                    ![g].isLoggedOut = FALSE,
                                    ![g].viaRemember = FALSE]
          /\ events' = [events EXCEPT ![g] =
                          Append(@, Event("authentication_succeeded", "none"))]
          /\ history' = Finished(g, frame[g].op, "return", providerUser)
          /\ frame' = [frame EXCEPT ![g].pc = "idle"]

\* remember-me path: `await getTokenBySeries(decodedToken.series)` and the check
AuthGetToken(g, ok) ==
  LET token == getTokenBySeries(frame[g].decodedToken.series) IN
  /\ frame[g].pc = "getToken"
  /\ calls' = Called(g, "getTokenBySeries")
  /\ UNCHANGED <<envVars, ctxVars, guard>>
  /\ IF ~ok
     THEN ProviderThrows(g) /\ UNCHANGED events
     ELSE IF tokenRejected(g, token, frame[g].decodedToken)
     THEN authenticationFailed(g, frame[g].op)
     ELSE /\ frame' = [frame EXCEPT ![g].pc = "findTokenUser",
                                    ![g].found = token, ![g].token = token]
          /\ UNCHANGED <<history, events>>

\* remember-me path: `await findById(token.userId)`, the session update, the
\* guard's flags, the success event and the rotation decision
AuthFindTokenUser(g, ok) ==
  LET c == guard[g].ctx
      token == frame[g].token
      providerUser == findById(token.userId)
      currentTime == now
  IN
  /\ frame[g].pc = "findTokenUser"
  /\ UNCHANGED <<now, ticks, callLimit, users, tokens, reqCookies>>
  /\ IF ~ok
     THEN /\ ProviderThrows(g)
          /\ calls' = Called(g, "findById")
          /\ UNCHANGED <<guard, events, session, resCookies, nextSecret>>
     ELSE IF providerUser = NoUser
     THEN /\ authenticationFailed(g, frame[g].op)
          /\ calls' = Called(g, "findById")
          /\ UNCHANGED <<guard, session, resCookies, nextSecret>>
     ELSE /\ session' = [session EXCEPT ![c].data[sessionKeyName(g)] = providerUser,
                                        ![c].sessionId = @ + 1]
          /\ guard' = [guard EXCEPT ![g].user = providerUser,
                                    ![g].isAuthenticated = TRUE,
                                    ![g].isLoggedOut = FALSE,
                                    ![g].viaRemember = TRUE]
          /\ events' = [events EXCEPT ![g] =
                          Append(@, Event("authentication_succeeded", token.series))]
          /\ IF needsRefresh(token, currentTime)
             THEN /\ frame' = [frame EXCEPT
                                 ![g].pc = "updateToken",
                                 ![g].currentTime = currentTime,
                                 ![g].token = refresh(token, TokenAge, nextSecret,
                                                      currentTime)]
                  /\ nextSecret' = nextSecret + 1
                  /\ calls' = [calls EXCEPT ![g].findById = @ + 1,
                                            ![g].session = @ + 2]
                  /\ UNCHANGED <<resCookies, history>>
             ELSE /\ resCookies' = [resCookies EXCEPT ![c][rememberMeKeyName(g)] =
                                      SetCookie(frame[g].rememberMeCookie)]
                  /\ frame' = [frame EXCEPT ![g].pc = "idle",
                                            ![g].currentTime = currentTime]
                  /\ history' = Finished(g, frame[g].op, "return", providerUser)
                  /\ calls' = [calls EXCEPT ![g].findById = @ + 1,
                                            ![g].session = @ + 2,
                                            ![g].cookieWrite = @ + 1]
                  /\ UNCHANGED nextSecret

\* remember-me path: `await updateTokenBySeries(token.series, token)`, then the
\* cookie with the new value
AuthUpdateToken(g, ok) ==
  LET c == guard[g].ctx
      token == frame[g].token
  IN
  /\ frame[g].pc = "updateToken"
  /\ UNCHANGED <<now, ticks, callLimit, users, nextSecret, session, reqCookies, guard, events>>
  /\ IF ~ok
     THEN /\ ProviderThrows(g)
          /\ calls' = Called(g, "updateTokenBySeries")
          /\ UNCHANGED <<tokens, resCookies>>
     ELSE /\ tokens' = updateTokenBySeries(token.series, token)
          /\ resCookies' = [resCookies EXCEPT ![c][rememberMeKeyName(g)] =
                              SetCookie(release(token))]
          /\ history' = Finished(g, frame[g].op, "return", guard[g].user)
          /\ frame' = [frame EXCEPT ![g].pc = "idle"]
          /\ calls' = [calls EXCEPT ![g].updateTokenBySeries = @ + 1,
                                    ![g].cookieWrite = @ + 1]

\* getUserOrFail(): the user the guard holds, or InvalidAuthSession
GetUserOrFail(g) ==
  /\ CanCall(g)
  /\ history' = IF guard[g].user # NoUser
                THEN Finished(g, "getUserOrFail", "return", guard[g].user)
                ELSE Finished(g, "getUserOrFail", "raise", InvalidAuthSession)
  /\ frame' = [frame EXCEPT ![g].op = "getUserOrFail"]
  /\ UNCHANGED <<envVars, ctxVars, guard, events, calls>>

\* mutant: a missing token provider goes unnoticed at login
getTokenProviderAlways(g) == TRUE

\* #getTokenProvider: TRUE when a provider is registered, else it throws
getTokenProvider(g) == guard[g].rememberMeTokenProvider

\* login(user, remember), up to `await createUserForGuard(user)`
LoginBegin(g, user, remember) ==
  /\ CanCall(g)
  /\ events' = [events EXCEPT ![g] = Append(@, Event("login_attempted", "none"))]
  /\ frame' = [frame EXCEPT ![g] =
                 [IdleFrame EXCEPT !.pc = "createUser", !.op = "login",
                                   !.user = user, !.remember = remember]]
  /\ UNCHANGED <<envVars, ctxVars, guard, history, calls>>

\* mutant: a login that minted a token marks the request as remembered
LoginSucceededViaRemember(g, series) ==
  /\ guard' = [guard EXCEPT ![g].user = frame[g].user, ![g].isLoggedOut = FALSE,
                            ![g].viaRemember = series # "none"]
  /\ events' = [events EXCEPT ![g] = Append(@, Event("login_succeeded", series))]
  /\ history' = Finished(g, frame[g].op, "return", frame[g].user)

\* mutant: login marks the request as authenticated too
LoginSucceededAuthenticated(g, series) ==
  /\ guard' = [guard EXCEPT ![g].user = frame[g].user, ![g].isLoggedOut = FALSE,
                            ![g].isAuthenticated = TRUE]
  /\ events' = [events EXCEPT ![g] = Append(@, Event("login_succeeded", series))]
  /\ history' = Finished(g, frame[g].op, "return", frame[g].user)

\* login: the user is marked as logged in and login_succeeded is emitted
LoginSucceeded(g, series) ==
  /\ guard' = [guard EXCEPT ![g].user = frame[g].user, ![g].isLoggedOut = FALSE]
  /\ events' = [events EXCEPT ![g] = Append(@, Event("login_succeeded", series))]
  /\ history' = Finished(g, frame[g].op, "return", frame[g].user)

\* mutant: login asks for the token provider before it touches the session
LoginCreateUserChecksFirst(g, ok, series) ==
  LET c == guard[g].ctx
      userId == frame[g].user
  IN
  /\ frame[g].pc = "createUser"
  /\ UNCHANGED <<now, ticks, callLimit, users, tokens, reqCookies>>
  /\ IF ~ok
     THEN /\ ProviderThrows(g)
          /\ UNCHANGED <<nextSecret, session, resCookies, guard, events, calls>>
     ELSE IF ~session[c].exists \/ (frame[g].remember /\ ~getTokenProvider(g))
     THEN /\ history' = Finished(g, frame[g].op, "raise", RuntimeException)
          /\ frame' = [frame EXCEPT ![g].pc = "idle"]
          /\ UNCHANGED <<nextSecret, session, resCookies, guard, events, calls>>
     ELSE /\ session' = [session EXCEPT ![c].data[sessionKeyName(g)] = userId,
                                        ![c].sessionId = @ + 1]
          /\ IF frame[g].remember
             THEN /\ tokens[series] = NoRow
                  /\ frame' = [frame EXCEPT
                                 ![g].pc = "createToken",
                                 ![g].token = create(userId, TokenAge,
                                                     guard[g].name, series,
                                                     nextSecret, now)]
                  /\ nextSecret' = nextSecret + 1
                  /\ calls' = [calls EXCEPT ![g].session = @ + 2]
                  /\ UNCHANGED <<resCookies, guard, events, history>>
             ELSE /\ resCookies' = [resCookies EXCEPT ![c][rememberMeKeyName(g)] =
                                      Cleared]
                  /\ LoginSucceeded(g, "none")
                  /\ frame' = [frame EXCEPT ![g].pc = "idle"]
                  /\ calls' = [calls EXCEPT ![g].session = @ + 2,
                                            ![g].cookieWrite = @ + 1]
                  /\ UNCHANGED nextSecret

\* login: #getSession, session.put, session.regenerate, then the remember-me
\* branch up to `await tokenProvider.createToken(token)`; `series` and the
\* secret are the random parts of the new token
LoginCreateUser(g, ok, series) ==
  LET c == guard[g].ctx
      userId == frame[g].user
  IN
  /\ frame[g].pc = "createUser"
  /\ UNCHANGED <<now, ticks, callLimit, users, tokens, reqCookies>>
  /\ IF ~ok
     THEN /\ ProviderThrows(g)
          /\ UNCHANGED <<nextSecret, session, resCookies, guard, events, calls>>
     ELSE IF ~session[c].exists
     THEN /\ history' = Finished(g, frame[g].op, "raise", RuntimeException)
          /\ frame' = [frame EXCEPT ![g].pc = "idle"]
          /\ UNCHANGED <<nextSecret, session, resCookies, guard, events, calls>>
     ELSE /\ session' = [session EXCEPT ![c].data[sessionKeyName(g)] = userId,
                                        ![c].sessionId = @ + 1]
          /\ IF frame[g].remember
             THEN IF ~getTokenProvider(g)
                  THEN /\ history' = Finished(g, frame[g].op, "raise", RuntimeException)
                       /\ frame' = [frame EXCEPT ![g].pc = "idle"]
                       /\ calls' = [calls EXCEPT ![g].session = @ + 2]
                       /\ UNCHANGED <<nextSecret, resCookies, guard, events>>
                  ELSE /\ tokens[series] = NoRow
                       /\ frame' = [frame EXCEPT
                                      ![g].pc = "createToken",
                                      ![g].token = create(userId, TokenAge,
                                                          guard[g].name, series,
                                                          nextSecret, now)]
                       /\ nextSecret' = nextSecret + 1
                       /\ calls' = [calls EXCEPT ![g].session = @ + 2]
                       /\ UNCHANGED <<resCookies, guard, events, history>>
             ELSE /\ resCookies' = [resCookies EXCEPT ![c][rememberMeKeyName(g)] =
                                      Cleared]
                  /\ LoginSucceeded(g, "none")
                  /\ frame' = [frame EXCEPT ![g].pc = "idle"]
                  /\ calls' = [calls EXCEPT ![g].session = @ + 2,
                                            ![g].cookieWrite = @ + 1]
                  /\ UNCHANGED nextSecret

\* login: `await tokenProvider.createToken(token)`, the cookie, the guard's
\* state and login_succeeded
LoginCreateToken(g, ok) ==
  LET c == guard[g].ctx
      token == frame[g].token
  IN
  /\ frame[g].pc = "createToken"
  /\ UNCHANGED <<now, ticks, callLimit, users, nextSecret, session, reqCookies>>
  /\ IF ~ok
     THEN /\ ProviderThrows(g)
          /\ UNCHANGED <<tokens, resCookies, guard, events, calls>>
     ELSE /\ tokens' = createToken(token)
          /\ resCookies' = [resCookies EXCEPT ![c][rememberMeKeyName(g)] =
                              SetCookie(release(token))]
          /\ LoginSucceeded(g, token.series)
          /\ frame' = [frame EXCEPT ![g].pc = "idle"]
          /\ calls' = [calls EXCEPT ![g].cookieWrite = @ + 1]

\* mutant: a failed login raises without a word to the emitter
loginFailedSilent(g) ==
  /\ history' = Finished(g, frame[g].op, "raise", InvalidCredentials)
  /\ frame' = [frame EXCEPT ![g].pc = "idle"]
  /\ UNCHANGED events

\* #loginFailed: emit login_failed, then throw
loginFailed(g) ==
  /\ events' = [events EXCEPT ![g] = Append(@, Event("login_failed", "none"))]
  /\ history' = Finished(g, frame[g].op, "raise", InvalidCredentials)
  /\ frame' = [frame EXCEPT ![g].pc = "idle"]

\* verifyCredentials(uid, password), up to the provider call
VerifyCredentialsBegin(g, uid, password) ==
  /\ CanCall(g)
  /\ frame' = [frame EXCEPT ![g] =
                 [IdleFrame EXCEPT !.pc = "verifyCredentials",
                                   !.op = "verifyCredentials",
                                   !.user = uid, !.password = password]]
  /\ UNCHANGED <<envVars, ctxVars, guard, history, events, calls>>

\* attempt(uid, password, remember), up to the provider call of verifyCredentials
AttemptBegin(g, uid, password, remember) ==
  /\ CanCall(g)
  /\ frame' = [frame EXCEPT ![g] =
                 [IdleFrame EXCEPT !.pc = "verifyCredentials", !.op = "attempt",
                                   !.user = uid, !.password = password,
                                   !.remember = remember]]
  /\ UNCHANGED <<envVars, ctxVars, guard, history, events, calls>>

\* `await this.#userProvider.verifyCredentials(uid, password)` and what follows:
\* verifyCredentials returns the user; attempt goes on into login, up to its
\* `await createUserForGuard(user)`
VerifyCredentials(g, ok) ==
  LET providerUser == providerVerifyCredentials(frame[g].user, frame[g].password)
      verified == Append(events[g], Event("credentials_verified", "none"))
  IN
  /\ frame[g].pc = "verifyCredentials"
  /\ UNCHANGED <<envVars, ctxVars, guard, calls>>
  /\ IF ~ok
     THEN ProviderThrows(g) /\ UNCHANGED events
     ELSE IF providerUser = NoUser
     THEN loginFailed(g)
     ELSE IF frame[g].op = "verifyCredentials"
     THEN /\ events' = [events EXCEPT ![g] = verified]
          /\ history' = Finished(g, frame[g].op, "return", providerUser)
          /\ frame' = [frame EXCEPT ![g].pc = "idle"]
     ELSE /\ events' = [events EXCEPT ![g] =
                          Append(verified, Event("login_attempted", "none"))]
          /\ frame' = [frame EXCEPT ![g].pc = "createUser", ![g].user = providerUser]
          /\ UNCHANGED history

\* loginViaId(id, remember), up to `await this.#userProvider.findById(id)`
LoginViaIdBegin(g, id, remember) ==
  /\ CanCall(g)
  /\ frame' = [frame EXCEPT ![g] =
                 [IdleFrame EXCEPT !.pc = "findLoginUser", !.op = "loginViaId",
                                   !.user = id, !.remember = remember]]
  /\ UNCHANGED <<envVars, ctxVars, guard, history, events, calls>>

\* loginViaId: the lookup, then login up to its `await createUserForGuard(user)`
LoginFindUser(g, ok) ==
  LET providerUser == findById(frame[g].user) IN
  /\ frame[g].pc = "findLoginUser"
  /\ calls' = Called(g, "findById")
  /\ UNCHANGED <<envVars, ctxVars, guard>>
  /\ IF ~ok
     THEN ProviderThrows(g) /\ UNCHANGED events
     ELSE IF providerUser = NoUser
     THEN loginFailed(g)
     ELSE /\ events' = [events EXCEPT ![g] =
                          Append(@, Event("login_attempted", "none"))]
          /\ frame' = [frame EXCEPT ![g].pc = "createUser"]
          /\ UNCHANGED history

\* mutant: logout never looks for a token to revoke
nothingToRevokeEver(g, rememberMeCookie) == TRUE

\* mutant: logout does not notice that no token provider is registered
nothingToRevokeNoCookie(g, rememberMeCookie) == rememberMeCookie = NoCookie

\* logout: `!rememberMeCookie || !this.#rememberMeTokenProvider`
nothingToRevoke(g, rememberMeCookie) ==
  rememberMeCookie = NoCookie \/ ~guard[g].rememberMeTokenProvider

\* logout(), up to `await deleteTokenBySeries(decodedToken.series)`
Logout(g) ==
  LET c == guard[g].ctx
      rememberMeCookie == reqCookies[c][rememberMeKeyName(g)]
      decodedToken == decode(rememberMeCookie)
  IN
  /\ CanCall(g)
  /\ UNCHANGED <<envVars, reqCookies, guard>>
  /\ IF ~session[c].exists
     THEN /\ history' = Finished(g, "logout", "raise", RuntimeException)
          /\ frame' = [frame EXCEPT ![g] = [IdleFrame EXCEPT !.op = "logout"]]
          /\ UNCHANGED <<session, resCookies, events, calls>>
     ELSE /\ session' = [session EXCEPT ![c].data[sessionKeyName(g)] = NoUser]
          /\ resCookies' = [resCookies EXCEPT ![c][rememberMeKeyName(g)] = Cleared]
          /\ events' = [events EXCEPT ![g] = Append(@, Event("logged_out", "none"))]
          /\ calls' = [calls EXCEPT ![g].session = @ + 1, ![g].cookieWrite = @ + 1,
                                    ![g].cookieRead = @ + 1]
          /\ IF nothingToRevoke(g, rememberMeCookie) \/ decodedToken = NoDecoded
             THEN /\ history' = Finished(g, "logout", "return", "none")
                  /\ frame' = [frame EXCEPT ![g] =
                                 [IdleFrame EXCEPT !.op = "logout",
                                                   !.rememberMeCookie = rememberMeCookie]]
             ELSE /\ frame' = [frame EXCEPT ![g] =
                                 [IdleFrame EXCEPT !.pc = "deleteToken",
                                                   !.op = "logout",
                                                   !.rememberMeCookie = rememberMeCookie,
                                                   !.decodedToken = decodedToken]]
                  /\ UNCHANGED history

\* mutant: once the token is revoked the guard lets go of its user
LogoutDeleteTokenForgets(g, ok) ==
  /\ frame[g].pc = "deleteToken"
  /\ UNCHANGED <<now, ticks, callLimit, users, nextSecret, ctxVars, events, calls>>
  /\ IF ~ok
     THEN ProviderThrows(g) /\ UNCHANGED <<tokens, guard>>
     ELSE /\ tokens' = deleteTokenBySeries(frame[g].decodedToken.series)
          /\ guard' = [guard EXCEPT ![g].user = NoUser, ![g].isLoggedOut = TRUE]
          /\ history' = Finished(g, "logout", "return", "none")
          /\ frame' = [frame EXCEPT ![g].pc = "idle"]

\* logout: `await this.#rememberMeTokenProvider.deleteTokenBySeries(series)`
LogoutDeleteToken(g, ok) ==
  /\ frame[g].pc = "deleteToken"
  /\ UNCHANGED <<now, ticks, callLimit, users, nextSecret, ctxVars, guard, events, calls>>
  /\ IF ~ok
     THEN ProviderThrows(g) /\ UNCHANGED tokens
     ELSE /\ tokens' = deleteTokenBySeries(frame[g].decodedToken.series)
          /\ history' = Finished(g, "logout", "return", "none")
          /\ frame' = [frame EXCEPT ![g].pc = "idle"]

\* mutant: the pair is keyed by the cookie's name
clientSessionCookieKey(g, userId) == <<rememberMeKeyName(g), userId>>

\* authenticateAsClient: `{ session: { [this.sessionKeyName]: userId } }`
clientSession(g, userId) == <<sessionKeyName(g), userId>>

\* authenticateAsClient(user), up to `await createUserForGuard(user)`
AuthenticateAsClientBegin(g, user) ==
  /\ CanCall(g)
  /\ frame' = [frame EXCEPT ![g] =
                 [IdleFrame EXCEPT !.pc = "clientUser",
                                   !.op = "authenticateAsClient", !.user = user]]
  /\ UNCHANGED <<envVars, ctxVars, guard, history, events, calls>>

\* authenticateAsClient: the user's id, and the session pair that is returned
AuthenticateAsClient(g, ok) ==
  /\ frame[g].pc = "clientUser"
  /\ UNCHANGED <<envVars, ctxVars, guard, events, calls>>
  /\ IF ~ok
     THEN ProviderThrows(g)
     ELSE /\ history' = Finished(g, "authenticateAsClient", "return", frame[g].user)
          /\ frame' = [frame EXCEPT ![g].pc = "idle",
                                    ![g].client = clientSession(g, frame[g].user)]

\* ------------------------------------------------ environment -----------
\* a test client's request whose session was seeded with the pair that
\* authenticateAsClient returned on guard g, served by a new guard instance h
SeedRequest(g, h) ==
  LET pair == frame[g].client
      d == guard[h].ctx
  IN
  /\ g # h
  /\ frame[g].pc = "idle" /\ pair # <<>>
  /\ frame[h].pc = "unborn"
  /\ frame' = [frame EXCEPT ![h].pc = "idle"]
  /\ session' = [session EXCEPT ![d] =
                   [exists |-> TRUE, sessionId |-> session[d].sessionId + 1,
                    data |-> [k \in SessionKeys |->
                                IF k = pair[1] THEN pair[2] ELSE NoUser]]]
  /\ reqCookies' = [reqCookies EXCEPT ![d] = [k \in CookieKeys |-> NoCookie]]
  /\ UNCHANGED <<envVars, resCookies, guard, history, events, calls>>

\* the cookie the browser holds for `key` once the response of ctx c is in
CookieJar(c, key) ==
  IF resCookies[c][key].kind = "set" THEN resCookies[c][key].value
  ELSE IF resCookies[c][key].kind = "cleared" THEN NoCookie
  ELSE reqCookies[c][key]

\* the browser's next request, served by a new guard instance h: it carries the
\* cookies left by the response to g's request and either the session of that
\* request or, the session being gone, a new empty one
NextRequest(g, h, keepSession) ==
  LET c == guard[g].ctx
      d == guard[h].ctx
  IN
  /\ g # h
  /\ frame[g].pc = "idle" /\ history[g] # <<>>
  /\ frame[h].pc = "unborn"
  /\ frame' = [frame EXCEPT ![h].pc = "idle"]
  /\ session' = [session EXCEPT ![d] =
                   IF keepSession THEN session[c]
                   ELSE [exists |-> TRUE, sessionId |-> session[c].sessionId + 1,
                         data |-> [k \in SessionKeys |-> NoUser]]]
  /\ reqCookies' = [reqCookies EXCEPT ![d] = [k \in CookieKeys |-> CookieJar(c, k)]]
  /\ UNCHANGED <<envVars, resCookies, guard, history, events, calls>>

\* a request that presents again what g's request presented (a second copy of
\* the cookies, held by another client), with the session of g's request or a
\* new empty one, served by a new guard instance h
ReplayRequest(g, h, keepSession) ==
  LET c == guard[g].ctx
      d == guard[h].ctx
  IN
  /\ g # h
  /\ frame[g].pc = "idle" /\ history[g] # <<>>
  /\ frame[h].pc = "unborn"
  /\ frame' = [frame EXCEPT ![h].pc = "idle"]
  /\ session' = [session EXCEPT ![d] =
                   IF keepSession THEN session[c]
                   ELSE [exists |-> TRUE, sessionId |-> session[c].sessionId + 1,
                         data |-> [k \in SessionKeys |-> NoUser]]]
  /\ reqCookies' = [reqCookies EXCEPT ![d] = reqCookies[c]]
  /\ UNCHANGED <<envVars, resCookies, guard, history, events, calls>>

\* the clock advances
Tick(d) ==
  /\ ticks < MaxTicks
  /\ now' = now + d
  /\ ticks' = ticks + 1
  /\ UNCHANGED <<callLimit, users, tokens, nextSecret, ctxVars, guard, frame, history,
                 events, calls>>

\* `await user.delete()`: the account is removed from the user provider
DeleteUser(u) ==
  /\ u \in users
  /\ users' = users \ {u}
  /\ UNCHANGED <<now, ticks, callLimit, tokens, nextSecret, ctxVars, guard, frame, history,
                 events, calls>>

\* the token row is revoked elsewhere (deleteTokenBySeries)
RevokeToken(series) ==
  /\ tokens[series] # NoRow
  /\ tokens' = [tokens EXCEPT ![series] = NoRow]
  /\ UNCHANGED <<now, ticks, callLimit, users, nextSecret, ctxVars, guard, frame, history,
                 events, calls>>

\* ------------------------------------------------ initial states --------
\* the token minted before the requests arrive: RememberMeToken.create(u1, ttl,
\* 'web') persisted with createToken; its secret is 1
FirstToken(ttl) == create("u1", ttl, "web", "s1", 1, 0)

ValidCookie == release(FirstToken(TokenAge))
RequestCookies ==
  { NoCookie,            \* no remember-me cookie on the request
    <<"foobar">>,        \* not of the form series.value
    ValidCookie,         \* the minted token's cookie
    Encode("s1", 2),     \* the right series with a value that was never issued
    Encode("s2", 1) }    \* a series the store does not hold

\* every guard instance serves its own request; all requests of one behaviour
\* come from the same browser and carry the same session and cookies
Setup(name, provider, exists, sessionUser, cookie, ttl) ==
  /\ now = 0
  /\ ticks = 0
  /\ callLimit = MaxCalls
  /\ users = UserIds
  /\ tokens = [s \in SeriesIds |->
                 IF s = "s1" THEN toRow(FirstToken(ttl)) ELSE NoRow]
  /\ nextSecret = 3
  /\ session = [c \in Guards |->
                  [exists |-> exists, sessionId |-> 1,
                   data |-> [k \in SessionKeys |->
                               IF k = <<"auth", name>> THEN sessionUser
                               ELSE NoUser]]]
  /\ reqCookies = [c \in Guards |->
                     [k \in CookieKeys |->
                        IF k = <<"remember", name>> THEN cookie ELSE NoCookie]]
  /\ resCookies = [c \in Guards |-> [k \in CookieKeys |-> Untouched]]
  /\ guard = [g \in Guards |-> NewGuard(name, g, provider)]
  /\ frame = [g \in Guards |-> IdleFrame]
  /\ history = [g \in Guards |-> <<>>]
  /\ events = [g \in Guards |-> <<>>]
  /\ calls = [g \in Guards |-> NoCalls]

Init ==
  \E name \in Names, provider \in BOOLEAN, exists \in BOOLEAN,
     sessionUser \in UserIds \cup {NoUser}, cookie \in RequestCookies,
     ttl \in {ShortAge, TokenAge} :
    /\ ~exists =>
         name = "web" /\ provider /\ sessionUser = NoUser /\ cookie = ValidCookie
    /\ sessionUser # NoUser =>
         name = "web" /\ provider /\ cookie \in {NoCookie, ValidCookie}
    /\ Setup(name, provider, exists, sessionUser, cookie, ttl)

\* requests of guard "web" that all present the minted token's cookie
InitRace == Setup("web", TRUE, TRUE, NoUser, ValidCookie, TokenAge)

\* ------------------------------------------------ specifications --------
\* one request: any sequence of calls on its guard instance, in any environment
Solo == {1}

Next ==
  \/ \E g \in Solo, op \in Ops : AuthCached(g, op)
  \/ \E g \in Solo, op \in Ops : AuthNoSession(g, op)
  \/ \E g \in Solo, op \in Ops : AuthBegin(g, op)
  \/ \E g \in Solo, ok \in BOOLEAN : AuthFindSessionUser(g, ok)
  \/ \E g \in Solo, ok \in BOOLEAN : AuthGetToken(g, ok)
  \/ \E g \in Solo, ok \in BOOLEAN : AuthFindTokenUser(g, ok)
  \/ \E g \in Solo, ok \in BOOLEAN : AuthUpdateToken(g, ok)
  \/ \E d \in TimeSteps : Tick(d)
  \/ \E u \in UserIds : DeleteUser(u)
  \/ \E s \in SeriesIds : RevokeToken(s)

Spec == Init /\ [][Next]_vars

\* concurrent requests: each guard instance authenticates once, every request
\* starts before any of them has finished, and their steps interleave at every
\* await; the providers do not fail
NoneFinished == \A g \in Guards : history[g] = <<>>

NextRace ==
  \/ \E g \in Guards : NoneFinished /\ AuthBegin(g, "authenticate")
  \/ \E g \in Guards : AuthGetToken(g, TRUE)
  \/ \E g \in Guards : AuthFindTokenUser(g, TRUE)
  \/ \E g \in Guards : AuthUpdateToken(g, TRUE)
  \/ \E d \in TimeSteps : Tick(d)

SpecRace == InitRace /\ [][NextRace]_vars

\* the same requests served one after the other
NoneInFlight == \A g \in Guards : frame[g].pc = "idle"

NextSerial ==
  \/ \E g \in Guards : NoneInFlight /\ AuthBegin(g, "authenticate")
  \/ \E g \in Guards : AuthGetToken(g, TRUE)
  \/ \E g \in Guards : AuthFindTokenUser(g, TRUE)
  \/ \E g \in Guards : AuthUpdateToken(g, TRUE)
  \/ \E d \in TimeSteps : Tick(d)

SpecSerial == InitRace /\ [][NextSerial]_vars

\* a login on one request, then the browser's next request on a new guard,
\* which does not exist before that request arrives
First == 1
Second == 2

InitLogin ==
  \E name \in Names, provider \in BOOLEAN, exists \in BOOLEAN,
     sessionUser \in {NoUser, "u1"}, cookie \in {NoCookie, ValidCookie} :
    /\ ~exists => name = "web" /\ provider /\ sessionUser = NoUser /\ cookie = NoCookie
    /\ now = 0
    /\ ticks = 0
    /\ callLimit = MaxCalls
    /\ users = UserIds
    /\ tokens = [s \in SeriesIds |->
                   IF s = "s1" THEN toRow(FirstToken(TokenAge)) ELSE NoRow]
    /\ nextSecret = 3
    /\ session = [c \in Guards |->
                    [exists |-> exists, sessionId |-> 1,
                     data |-> [k \in SessionKeys |->
                                 IF k = <<"auth", name>> THEN sessionUser
                                 ELSE NoUser]]]
    /\ reqCookies = [c \in Guards |->
                       [k \in CookieKeys |->
                          IF k = <<"remember", name>> THEN cookie ELSE NoCookie]]
    /\ resCookies = [c \in Guards |-> [k \in CookieKeys |-> Untouched]]
    /\ guard = [g \in Guards |-> NewGuard(name, g, provider)]
    /\ frame = [g \in Guards |->
                  IF g = First THEN IdleFrame ELSE [IdleFrame EXCEPT !.pc = "unborn"]]
    /\ history = [g \in Guards |-> <<>>]
    /\ events = [g \in Guards |-> <<>>]
    /\ calls = [g \in Guards |-> NoCalls]

NextLogin ==
  \/ \E user \in UserIds, remember \in BOOLEAN : LoginBegin(First, user, remember)
  \/ \E ok \in BOOLEAN, series \in SeriesIds : LoginCreateUser(First, ok, series)
  \/ \E ok \in BOOLEAN : LoginCreateToken(First, ok)
  \/ \E keepSession \in BOOLEAN : NextRequest(First, Second, keepSession)
  \/ AuthCached(Second, "authenticate")
  \/ AuthNoSession(Second, "authenticate")
  \/ AuthBegin(Second, "authenticate")
  \/ AuthFindSessionUser(Second, TRUE)
  \/ AuthGetToken(Second, TRUE)
  \/ AuthFindTokenUser(Second, TRUE)
  \/ AuthUpdateToken(Second, TRUE)
  \/ \E d \in TimeSteps : Tick(d)
  \/ \E u \in UserIds : DeleteUser(u)

SpecLogin == InitLogin /\ [][NextLogin]_vars

\* Every guard but First is yet to be constructed: its request has not arrived
Unborn == [g \in Guards |->
             IF g = First THEN IdleFrame ELSE [IdleFrame EXCEPT !.pc = "unborn"]]

\* a request presenting the minted token's cookie, then a later request that
\* presents either the cookie the first response issued or the old one again
InitRotate ==
  /\ now = 0
  /\ ticks = 0
  /\ callLimit = MaxCalls
  /\ users = UserIds
  /\ tokens = [s \in SeriesIds |->
                 IF s = "s1" THEN toRow(FirstToken(TokenAge)) ELSE NoRow]
  /\ nextSecret = 3
  /\ session = [c \in Guards |->
                  [exists |-> TRUE, sessionId |-> 1,
                   data |-> [k \in SessionKeys |-> NoUser]]]
  /\ reqCookies = [c \in Guards |->
                     [k \in CookieKeys |->
                        IF k = <<"remember", "web">> THEN ValidCookie ELSE NoCookie]]
  /\ resCookies = [c \in Guards |-> [k \in CookieKeys |-> Untouched]]
  /\ guard = [g \in Guards |-> NewGuard("web", g, TRUE)]
  /\ frame = Unborn
  /\ history = [g \in Guards |-> <<>>]
  /\ events = [g \in Guards |-> <<>>]
  /\ calls = [g \in Guards |-> NoCalls]

NextRotate ==
  \/ \E g \in {First, Second} : AuthBegin(g, "authenticate")
  \/ \E g \in {First, Second} : AuthGetToken(g, TRUE)
  \/ \E g \in {First, Second} : AuthFindTokenUser(g, TRUE)
  \/ \E g \in {First, Second} : AuthUpdateToken(g, TRUE)
  \/ NextRequest(First, Second, FALSE)
  \/ ReplayRequest(First, Second, FALSE)
  \/ \E d \in TimeSteps : Tick(d)

SpecRotate == InitRotate /\ [][NextRotate]_vars

\* every operation of the guard, called one after the other on the guard of one
\* request
InitOps ==
  \E name \in Names, provider \in BOOLEAN, exists \in BOOLEAN,
     sessionUser \in {NoUser, "u1"}, gone \in {NoUser, "u1"},
     cookie \in {NoCookie, <<"foobar">>, ValidCookie, Encode("s1", 2)} :
    /\ ~exists => name = "web" /\ provider /\ sessionUser = NoUser /\ cookie = NoCookie
    /\ name = "api" => sessionUser = NoUser /\ cookie \in {NoCookie, ValidCookie}
    /\ now = 0
    /\ ticks = 0
    /\ callLimit = MaxCalls
    /\ users = UserIds \ {gone}
    /\ tokens = [s \in SeriesIds |->
                   IF s = "s1" THEN toRow(FirstToken(TokenAge)) ELSE NoRow]
    /\ nextSecret = 3
    /\ session = [c \in Guards |->
                    [exists |-> exists, sessionId |-> 1,
                     data |-> [k \in SessionKeys |->
                                 IF k = <<"auth", name>> THEN sessionUser
                                 ELSE NoUser]]]
    /\ reqCookies = [c \in Guards |->
                       [k \in CookieKeys |->
                          IF k = <<"remember", name>> THEN cookie ELSE NoCookie]]
    /\ resCookies = [c \in Guards |-> [k \in CookieKeys |-> Untouched]]
    /\ guard = [g \in Guards |-> NewGuard(name, g, provider)]
    /\ frame = Unborn
    /\ history = [g \in Guards |-> <<>>]
    /\ events = [g \in Guards |-> <<>>]
    /\ calls = [g \in Guards |-> NoCalls]

NextOps ==
  \/ \E op \in Ops : AuthCached(First, op)
  \/ \E op \in Ops : AuthNoSession(First, op)
  \/ \E op \in Ops : AuthBegin(First, op)
  \/ \E ok \in BOOLEAN : AuthFindSessionUser(First, ok)
  \/ \E ok \in BOOLEAN : AuthGetToken(First, ok)
  \/ \E ok \in BOOLEAN : AuthFindTokenUser(First, ok)
  \/ \E ok \in BOOLEAN : AuthUpdateToken(First, ok)
  \/ \E user \in UserIds, remember \in BOOLEAN : LoginBegin(First, user, remember)
  \/ \E ok \in BOOLEAN, series \in SeriesIds : LoginCreateUser(First, ok, series)
  \/ \E ok \in BOOLEAN : LoginCreateToken(First, ok)
  \/ \E uid \in UserIds, password \in Passwords :
       VerifyCredentialsBegin(First, uid, password)
  \/ \E uid \in UserIds, password \in Passwords, remember \in BOOLEAN :
       AttemptBegin(First, uid, password, remember)
  \/ \E ok \in BOOLEAN : VerifyCredentials(First, ok)
  \/ \E id \in UserIds, remember \in BOOLEAN : LoginViaIdBegin(First, id, remember)
  \/ \E ok \in BOOLEAN : LoginFindUser(First, ok)
  \/ Logout(First)
  \/ \E ok \in BOOLEAN : LogoutDeleteToken(First, ok)
  \/ \E user \in UserIds : AuthenticateAsClientBegin(First, user)
  \/ \E ok \in BOOLEAN : AuthenticateAsClient(First, ok)
  \/ Tick(Grace)

SpecOps == InitOps /\ [][NextOps]_vars

\* logout and authenticateAsClient calls on one request; when they are over, a
\* later request on a new guard: with the same session and cookies again, or
\* with a session seeded from the pair authenticateAsClient returned
NextAfter ==
  \/ frame[Second].pc = "unborn" /\ Logout(First)
  \/ \E ok \in BOOLEAN : LogoutDeleteToken(First, ok)
  \/ \E user \in UserIds :
       frame[Second].pc = "unborn" /\ AuthenticateAsClientBegin(First, user)
  \/ \E ok \in BOOLEAN : AuthenticateAsClient(First, ok)
  \/ ReplayRequest(First, Second, TRUE)
  \/ SeedRequest(First, Second)
  \/ AuthNoSession(Second, "authenticate")
  \/ AuthBegin(Second, "authenticate")
  \/ AuthFindSessionUser(Second, TRUE)
  \/ AuthGetToken(Second, TRUE)
  \/ AuthFindTokenUser(Second, TRUE)
  \/ AuthUpdateToken(Second, TRUE)
  \/ Tick(Grace)
  \/ \E u \in UserIds : DeleteUser(u)

SpecAfter == InitOps /\ [][NextAfter]_vars

\* one request whose handler calls authenticate() and, before that call has
\* settled, authenticate() or check() again on the same guard
NextReentrant ==
  \/ \E op \in Ops : AuthBegin(First, op)
  \/ \E op \in Ops : AuthReentrant(First, op)
  \/ \E ok \in BOOLEAN : AuthFindSessionUser(First, ok)
  \/ \E ok \in BOOLEAN : AuthGetToken(First, ok)
  \/ \E ok \in BOOLEAN : AuthFindTokenUser(First, ok)
  \/ \E ok \in BOOLEAN : AuthUpdateToken(First, ok)
  \/ \E d \in TimeSteps : Tick(d)
  \/ \E u \in UserIds : DeleteUser(u)

SpecReentrant == Init /\ [][NextReentrant]_vars

\* one guard instance followed through a request whose handler authenticates
\* or logs in, logs out and then asks the guard again; the providers may fail
\* what authenticate() and logout() ask of them
InitLifecycle ==
  \E provider \in BOOLEAN, sessionUser \in {NoUser, "u1"}, gone \in {NoUser, "u1"},
     cookie \in {NoCookie, ValidCookie, Encode("s1", 2)} :
    /\ now = 0
    /\ ticks = 0
    /\ callLimit = LongCalls
    /\ users = UserIds \ {gone}
    /\ tokens = [s \in SeriesIds |->
                   IF s = "s1" THEN toRow(FirstToken(TokenAge)) ELSE NoRow]
    /\ nextSecret = 3
    /\ session = [c \in Guards |->
                    [exists |-> TRUE, sessionId |-> 1,
                     data |-> [k \in SessionKeys |->
                                 IF k = <<"auth", "web">> THEN sessionUser
                                 ELSE NoUser]]]
    /\ reqCookies = [c \in Guards |->
                       [k \in CookieKeys |->
                          IF k = <<"remember", "web">> THEN cookie ELSE NoCookie]]
    /\ resCookies = [c \in Guards |-> [k \in CookieKeys |-> Untouched]]
    /\ guard = [g \in Guards |-> NewGuard("web", g, provider)]
    /\ frame = Unborn
    /\ history = [g \in Guards |-> <<>>]
    /\ events = [g \in Guards |-> <<>>]
    /\ calls = [g \in Guards |-> NoCalls]

NextLifecycle ==
  \/ \E op \in Ops : AuthCached(First, op)
  \/ \E op \in Ops : AuthBegin(First, op)
  \/ \E ok \in BOOLEAN : AuthFindSessionUser(First, ok)
  \/ \E ok \in BOOLEAN : AuthGetToken(First, ok)
  \/ \E ok \in BOOLEAN : AuthFindTokenUser(First, ok)
  \/ \E ok \in BOOLEAN : AuthUpdateToken(First, ok)
  \/ \E user \in UserIds, remember \in BOOLEAN : LoginBegin(First, user, remember)
  \/ \E series \in SeriesIds : LoginCreateUser(First, TRUE, series)
  \/ LoginCreateToken(First, TRUE)
  \/ Logout(First)
  \/ \E ok \in BOOLEAN : LogoutDeleteToken(First, ok)
  \/ GetUserOrFail(First)
  \/ Tick(Grace + 1)

SpecLifecycle == InitLifecycle /\ [][NextLifecycle]_vars

\* one request served with two guards of different names, "web" and "api", on
\* the same ctx: they share the session and the cookies of the request; the
\* handler calls them one after the other
InitTwoNames ==
  \E provider \in BOOLEAN, webUser \in {NoUser, "u1"},
     webCookie \in {NoCookie, ValidCookie}, apiCookie \in {NoCookie, ValidCookie} :
    /\ now = 0
    /\ ticks = 0
    /\ callLimit = MaxCalls
    /\ users = UserIds
    /\ tokens = [s \in SeriesIds |->
                   IF s = "s1" THEN toRow(FirstToken(TokenAge)) ELSE NoRow]
    /\ nextSecret = 3
    /\ session = [c \in Guards |->
                    [exists |-> TRUE, sessionId |-> 1,
                     data |-> [k \in SessionKeys |->
                                 IF k = <<"auth", "web">> THEN webUser ELSE NoUser]]]
    /\ reqCookies = [c \in Guards |->
                       [k \in CookieKeys |->
                          IF k = <<"remember", "web">> THEN webCookie ELSE apiCookie]]
    /\ resCookies = [c \in Guards |-> [k \in CookieKeys |-> Untouched]]
    /\ guard = [g \in Guards |->
                  NewGuard(IF g = First THEN "web" ELSE "api", First, provider)]
    /\ frame = [g \in Guards |-> IdleFrame]
    /\ history = [g \in Guards |-> <<>>]
    /\ events = [g \in Guards |-> <<>>]
    /\ calls = [g \in Guards |-> NoCalls]

NextTwoNames ==
  \/ \E g \in Guards : AuthCached(g, "authenticate")
  \/ \E g \in Guards : NoneInFlight /\ AuthBegin(g, "authenticate")
  \/ \E g \in Guards : AuthFindSessionUser(g, TRUE)
  \/ \E g \in Guards : AuthGetToken(g, TRUE)
  \/ \E g \in Guards : AuthFindTokenUser(g, TRUE)
  \/ \E g \in Guards, user \in UserIds, remember \in BOOLEAN :
       NoneInFlight /\ LoginBegin(g, user, remember)
  \/ \E g \in Guards, series \in SeriesIds : LoginCreateUser(g, TRUE, series)
  \/ \E g \in Guards : LoginCreateToken(g, TRUE)
  \/ \E g \in Guards : NoneInFlight /\ Logout(g)
  \/ \E g \in Guards : LogoutDeleteToken(g, TRUE)

SpecTwoNames == InitTwoNames /\ [][NextTwoNames]_vars

\* ------------------------------------------------ claims ----------------
Rotated(g) == calls[g].updateTokenBySeries > 0
FinishedCall(g) == history[g] # <<>>
Succeeded(g) == FinishedCall(g) /\ history[g][1].outcome = "return"
PresentedCookie(g) == reqCookies[guard[g].ctx][rememberMeKeyName(g)]
IssuedCookie(g) == resCookies[guard[g].ctx][rememberMeKeyName(g)]

\* C1: among concurrent requests presenting the same token after its grace
\* window has passed, at most one refreshes the token and calls
\* updateTokenBySeries: no two requests store a new secret starting from the
\* same pre-rotation token row.
C1_OnlyFirstRotates ==
  \A g, h \in Guards :
    (g # h /\ Rotated(g) /\ Rotated(h)) => frame[g].found # frame[h].found

\* C2: no concurrent request presenting a cookie that matched the stored hash
\* when the earliest of them started fails: each one that has finished has
\* authenticated successfully.
C2_NoRequestLosesRace ==
  \A g \in Guards : FinishedCall(g) => Succeeded(g)

\* C3: concurrent requests presenting the same valid cookie, all running within
\* 60 seconds of the token's updatedAt: each one authenticates, none writes to
\* the token store (the row is as minted) and each re-issues the cookie with
\* the value it was presented.
C3_WithinWindowNoWrite ==
  now <= FirstToken(TokenAge).updatedAt + Grace =>
    /\ tokens["s1"] = toRow(FirstToken(TokenAge))
    /\ \A g \in Guards :
         /\ ~Rotated(g)
         /\ FinishedCall(g) =>
              /\ history[g][1] =
                   [op |-> "authenticate", outcome |-> "return", value |-> "u1"]
              /\ guard[g].isAuthenticated /\ guard[g].viaRemember
              /\ IssuedCookie(g) = SetCookie(PresentedCookie(g))

\* every request has run to its end at the last instant of the window
C3_Witness ==
  /\ now = FirstToken(TokenAge).updatedAt + Grace
  /\ \A g \in Guards : Succeeded(g) /\ frame[g].currentTime = now

\* C4: requests served one after the other.  The instant of a use is the
\* instant the guard reads the clock.  A use less than 60 seconds after the
\* updatedAt of the token it found succeeds, leaves the stored row as found and
\* re-issues the presented cookie; a use more than 60 seconds after it succeeds,
\* stores another hash under the same series and issues a cookie that differs
\* from the presented one.
C4_Step(g) ==
  LET f == frame'[g].found
      t == frame'[g].currentTime
      issued == resCookies'[guard[g].ctx][rememberMeKeyName(g)]
      ok == history'[g][1] =
              [op |-> "authenticate", outcome |-> "return", value |-> f.userId]
  IN (frame[g].pc \in {"findTokenUser", "updateToken"} /\ frame'[g].pc = "idle") =>
       /\ t < f.updatedAt + Grace =>
            /\ ok
            /\ tokens'[f.series] = toRow(f)
            /\ calls'[g].updateTokenBySeries = 0
            /\ issued = SetCookie(PresentedCookie(g))
       /\ t > f.updatedAt + Grace =>
            /\ ok
            /\ tokens'[f.series].hash # f.hash
            /\ tokens'[f.series].series = f.series
            /\ tokens'[f.series].userId = f.userId
            /\ issued.kind = "set"
            /\ issued.value # PresentedCookie(g)
            /\ decode(issued.value).series = f.series

C4_SequentialWindow == [][\A g \in Guards : C4_Step(g)]_vars

\* one use inside the window and a later one past it, both done
C4_Witness ==
  \E g, h \in Guards :
    /\ Succeeded(g) /\ ~Rotated(g) /\ frame[g].currentTime < Grace
    /\ Succeeded(h) /\ Rotated(h)
    /\ frame[h].currentTime > frame[h].found.updatedAt + Grace

\* a later authenticate() call on guard g ends in this step
LaterAuthenticate(g) ==
  /\ Len(history[g]) >= 1
  /\ Len(history'[g]) = Len(history[g]) + 1
  /\ history[g][1].op = "authenticate"
  /\ history'[g][Len(history'[g])].op = "authenticate"

\* C5: a second authenticate() on the same guard instance yields the result of
\* the first (the same principal, or a failure both times) and performs no
\* session read, user lookup, token lookup or update, cookie write or event
\* emission.
C5_Step(g) ==
  LET first == history[g][1]
      again == history'[g][Len(history'[g])]
  IN LaterAuthenticate(g) =>
       /\ again.outcome = first.outcome
       /\ first.outcome = "return" => again.value = first.value
       /\ calls'[g] = calls[g]
       /\ events'[g] = events[g]
       /\ UNCHANGED <<session, resCookies, tokens>>

C5_Idempotent == [][\A g \in Guards : C5_Step(g)]_vars

\* C6: when the first authenticate() raised, every later authenticate() on the
\* instance raises the same kind of error.
C6_SameFailureAgain ==
  \A g \in Guards : \A i \in 1..Len(history[g]) :
    ( /\ history[g][1].op = "authenticate"
      /\ history[g][1].outcome = "raise"
      /\ history[g][i].op = "authenticate" )
    => history[g][i] = history[g][1]

\* the call in flight on guard g ends in this step because a provider threw
ProviderFailed(g) ==
  /\ Len(history'[g]) = Len(history[g]) + 1
  /\ history'[g][Len(history'[g])].value = ProviderError

RaisedInvalidAuthSession(g) ==
  history'[g] =
    Append(history[g],
           [op |-> "authenticate", outcome |-> "raise", value |-> InvalidAuthSession])

\* C7: when the session holds, under auth_<name>, the id of a user the user
\* provider resolves, the first authenticate() returns that user and leaves
\* isAuthenticated = true, authenticationAttempted = true, viaRemember = false
\* and isLoggedOut = false, with or without a remember-me cookie.
C7_Step(g) ==
  LET id == frame'[g].loggedInUserId IN
  ( /\ history[g] = <<>> /\ history'[g] # <<>>
    /\ history'[g][1].op = "authenticate"
    /\ id \in users
    /\ ~ProviderFailed(g) )
  => /\ history'[g][1] = [op |-> "authenticate", outcome |-> "return", value |-> id]
     /\ guard'[g].user = id
     /\ guard'[g].isAuthenticated
     /\ guard'[g].authenticationAttempted
     /\ ~guard'[g].viaRemember
     /\ ~guard'[g].isLoggedOut

C7_SessionUserAuthenticates == [][\A g \in Guards : C7_Step(g)]_vars

\* a session user was authenticated although a valid cookie of another user's
\* token was on the request
C7_Witness ==
  \E g \in Guards :
    /\ Succeeded(g)
    /\ history[g][1].op = "authenticate"
    /\ frame[g].loggedInUserId = "u2"
    /\ guard[g].user = "u2" /\ ~guard[g].viaRemember
    /\ PresentedCookie(g) = ValidCookie

\* C8: when the session holds no user id and either no remember-me cookie is
\* present or no token provider is registered, authenticate() emits
\* authentication_failed and raises InvalidAuthSession; isAuthenticated stays
\* false, user stays unset, and session, cookies and token store are untouched.
C8_Step(g) ==
  LET c == guard[g].ctx IN
  ( /\ ~guard[g].authenticationAttempted
    /\ guard'[g].authenticationAttempted
    /\ frame'[g].op = "authenticate"
    /\ session[c].exists
    /\ session[c].data[sessionKeyName(g)] = NoUser
    /\ (PresentedCookie(g) = NoCookie \/ ~guard[g].rememberMeTokenProvider) )
  => /\ RaisedInvalidAuthSession(g)
     /\ events'[g] = events[g] \o <<Event("authentication_attempted", "none"),
                                    Event("authentication_failed", "none")>>
     /\ ~guard'[g].isAuthenticated
     /\ guard'[g].user = NoUser
     /\ UNCHANGED <<session, reqCookies, resCookies, tokens>>

C8_NoCookieOrNoProvider == [][\A g \in Guards : C8_Step(g)]_vars

\* a valid cookie was on the request, but no token provider on the guard
C8_Witness ==
  \E g \in Guards :
    /\ FinishedCall(g)
    /\ history[g][1] =
         [op |-> "authenticate", outcome |-> "raise", value |-> InvalidAuthSession]
    /\ ~guard[g].rememberMeTokenProvider
    /\ PresentedCookie(g) = ValidCookie
    /\ guard[g].name = "web"

\* C9: a stored token whose guard field differs from the authenticating
\* guard's name never authenticates it: the lookup of such a token ends
\* authenticate() with InvalidAuthSession, isAuthenticated stays false, and the
\* session and the token store are not written.
C9_Step(g) ==
  LET row == tokens[frame[g].decodedToken.series] IN
  ( /\ frame[g].pc = "getToken" /\ frame'[g].pc # "getToken"
    /\ frame[g].op = "authenticate"
    /\ row # NoRow
    /\ row.guard # guard[g].name
    /\ ~ProviderFailed(g) )
  => /\ RaisedInvalidAuthSession(g)
     /\ ~guard'[g].isAuthenticated
     /\ guard'[g].user = NoUser
     /\ UNCHANGED <<session, resCookies, tokens>>

C10_Lookup(g) ==
  LET d == frame[g].decodedToken
      row == tokens[d.series]
  IN
  ( /\ frame[g].pc = "getToken" /\ frame'[g].pc # "getToken"
    /\ frame[g].op = "authenticate"
    /\ row # NoRow
    /\ verify(row, d.value)
    /\ row.guard = guard[g].name
    /\ ~ProviderFailed(g) )
  => /\ now >= row.expiresAt =>
          /\ RaisedInvalidAuthSession(g)
          /\ ~guard'[g].isAuthenticated
          /\ guard'[g].user = NoUser
     /\ now < row.expiresAt =>
          /\ frame'[g].pc = "findTokenUser"
          /\ frame'[g].found = fromRow(row)

C10_Accepted(g) ==
  ( /\ frame[g].pc = "findTokenUser" /\ frame'[g].pc # "findTokenUser"
    /\ frame[g].op = "authenticate"
    /\ frame[g].found.userId \in users
    /\ ~ProviderFailed(g) )
  => /\ guard'[g].isAuthenticated
     /\ guard'[g].user = frame[g].found.userId
     /\ frame'[g].pc = "idle" =>
          history'[g] =
            Append(history[g], [op |-> "authenticate", outcome |-> "return",
                                value |-> frame[g].found.userId])

C10_ExpiredNeverAuthenticates ==
  [][\A g \in Guards : C10_Lookup(g) /\ C10_Accepted(g)]_vars

\* the one-minute token was presented, intact, after its expiry
C10_Witness ==
  \E g \in Guards :
    LET d == frame[g].decodedToken IN
    /\ d # NoDecoded
    /\ tokens[d.series] # NoRow
    /\ tokens[d.series] = toRow(FirstToken(ShortAge))
    /\ verify(tokens[d.series], d.value)
    /\ guard[g].name = "web"
    /\ now >= ShortAge
    /\ calls[g].getTokenBySeries = 1
    /\ ~guard[g].isAuthenticated
    /\ history[g] =
         <<[op |-> "authenticate", outcome |-> "raise", value |-> InvalidAuthSession]>>

FailedEvent == Event("authentication_failed", "none")

\* C11: a valid remember-me token whose userId the user provider cannot resolve:
\* authenticate() emits authentication_failed and raises InvalidAuthSession; the
\* session is neither written nor regenerated, no cookie is issued, and the
\* stored token is neither rotated nor deleted.
C11_Step(g) ==
  ( /\ frame[g].pc = "findTokenUser" /\ frame'[g].pc # "findTokenUser"
    /\ frame[g].op = "authenticate"
    /\ frame[g].found.userId \notin users
    /\ ~ProviderFailed(g) )
  => /\ RaisedInvalidAuthSession(g)
     /\ events'[g] = Append(events[g], FailedEvent)
     /\ ~guard'[g].isAuthenticated
     /\ guard'[g].user = NoUser
     /\ calls'[g].updateTokenBySeries = 0
     /\ calls'[g].cookieWrite = 0
     /\ UNCHANGED <<session, resCookies, tokens>>

C11_DeletedTokenUser == [][\A g \in Guards : C11_Step(g)]_vars

\* the minted token was accepted, its owner was gone, and the row is still there
C11_Witness ==
  \E g \in Guards :
    /\ frame[g].found = fromRow(toRow(FirstToken(TokenAge)))
    /\ "u1" \notin users
    /\ calls[g].findById = 1
    /\ tokens["s1"] = toRow(FirstToken(TokenAge))
    /\ IssuedCookie(g) = Untouched
    /\ session[guard[g].ctx].sessionId = 1
    /\ history[g] =
         <<[op |-> "authenticate", outcome |-> "raise", value |-> InvalidAuthSession]>>

\* C12: when the session holds under auth_<name> a user id the user provider
\* cannot resolve, authenticate() emits authentication_failed and raises
\* InvalidAuthSession without reading the remember-me cookie or calling the
\* token provider, even with a valid cookie of an existing user on the request.
C12_Step(g) ==
  LET id == frame'[g].loggedInUserId IN
  ( /\ history[g] = <<>> /\ history'[g] # <<>>
    /\ history'[g][1].op = "authenticate"
    /\ id # NoUser
    /\ id \notin users
    /\ ~ProviderFailed(g) )
  => /\ RaisedInvalidAuthSession(g)
     /\ events'[g] = Append(events[g], FailedEvent)
     /\ calls'[g].cookieRead = 0
     /\ calls'[g].getTokenBySeries = 0
     /\ calls'[g].updateTokenBySeries = 0
     /\ ~guard'[g].isAuthenticated
     /\ guard'[g].user = NoUser
     /\ UNCHANGED <<session, resCookies, tokens>>

C12_StaleSessionUser == [][\A g \in Guards : C12_Step(g)]_vars

\* the session named a deleted user while the request carried the valid cookie
\* of a live token whose owner exists
C12_Witness ==
  \E g \in Guards :
    /\ frame[g].loggedInUserId = "u2"
    /\ "u2" \notin users
    /\ "u1" \in users
    /\ PresentedCookie(g) = ValidCookie
    /\ getTokenBySeries("s1") # NoRow
    /\ calls[g].findById = 1
    /\ history[g] =
         <<[op |-> "authenticate", outcome |-> "raise", value |-> InvalidAuthSession]>>

AttemptedEvent == Event("authentication_attempted", "none")
LastEvent(g) == events'[g][Len(events'[g])]

\* C13: a successful remember-me authentication stores token.userId in the
\* session under auth_<name> and regenerates the session identifier (it differs
\* from the one before), sets isAuthenticated and viaRemember, and emits
\* authentication_succeeded carrying the token used; when authenticate() then
\* returns, all of this still holds.
C13_Accept(g) ==
  LET c == guard[g].ctx IN
  ( /\ frame[g].pc = "findTokenUser"
    /\ frame'[g].pc \in {"updateToken", "idle"}
    /\ frame[g].found.userId \in users
    /\ ~ProviderFailed(g) )
  => /\ session'[c].data[sessionKeyName(g)] = frame[g].found.userId
     /\ session'[c].sessionId # session[c].sessionId
     /\ guard'[g].isAuthenticated /\ guard'[g].viaRemember
     /\ events'[g] =
          Append(events[g], [type |-> "authentication_succeeded",
                             token |-> frame[g].found.series])

C13_Return(g) ==
  LET c == guard[g].ctx IN
  ( /\ frame[g].pc \in {"findTokenUser", "updateToken"}
    /\ frame'[g].pc = "idle"
    /\ Len(history'[g]) = Len(history[g]) + 1
    /\ history'[g][Len(history'[g])].outcome = "return"
    /\ history'[g][Len(history'[g])].value # "false" )
  => /\ session'[c].data[sessionKeyName(g)] = frame[g].found.userId
     /\ frame[g].pc = "updateToken" => session'[c] = session[c]
     /\ guard'[g].isAuthenticated /\ guard'[g].viaRemember
     /\ guard'[g].user = frame[g].found.userId
     /\ LastEvent(g) = [type |-> "authentication_succeeded",
                        token |-> frame[g].found.series]

C13_RememberMeSuccess ==
  [][\A g \in Guards : C13_Accept(g) /\ C13_Return(g)]_vars

\* authenticate() returned after rotating the token it was presented
C13_Witness ==
  \E g \in Guards :
    /\ history[g] = <<[op |-> "authenticate", outcome |-> "return", value |-> "u1"]>>
    /\ guard[g].viaRemember /\ guard[g].isAuthenticated
    /\ Rotated(g)
    /\ session[guard[g].ctx].sessionId = 2
    /\ session[guard[g].ctx].data[sessionKeyName(g)] = "u1"
    /\ events[g][Len(events[g])].token = "s1"

\* C14: every failure of remember-me validation looks the same.  An undecodable
\* cookie, an unknown series, a value that does not verify, a guard-name
\* mismatch and an expired token each end authenticate() with InvalidAuthSession
\* and the events authentication_attempted, authentication_failed, the guard
\* unauthenticated, and no change to the session, the response cookies or the
\* token store in any step of the call.
C14_Outcome(g) ==
  /\ RaisedInvalidAuthSession(g)
  /\ history[g] = <<>>
  /\ events'[g] = <<AttemptedEvent, FailedEvent>>
  /\ ~guard'[g].isAuthenticated
  /\ guard'[g].user = NoUser
  /\ calls'[g].cookieWrite = 0
  /\ calls'[g].updateTokenBySeries = 0
  /\ UNCHANGED <<session, resCookies, tokens>>

C14_Undecodable(g) ==
  LET c == guard[g].ctx IN
  ( /\ ~guard[g].authenticationAttempted
    /\ guard'[g].authenticationAttempted
    /\ frame'[g].op = "authenticate"
    /\ session[c].exists
    /\ session[c].data[sessionKeyName(g)] = NoUser
    /\ guard[g].rememberMeTokenProvider
    /\ PresentedCookie(g) # NoCookie
    /\ decode(PresentedCookie(g)) = NoDecoded )
  => C14_Outcome(g)

C14_Lookup(g) ==
  LET d == frame[g].decodedToken
      row == tokens[d.series]
  IN
  ( /\ frame[g].pc = "getToken" /\ frame'[g].pc # "getToken"
    /\ frame[g].op = "authenticate"
    /\ ~ProviderFailed(g)
    /\ \/ row = NoRow
       \/ ~verify(row, d.value)
       \/ row.guard # guard[g].name
       \/ now >= row.expiresAt )
  => C14_Outcome(g)

C14_Decoded(g) ==
  (frame[g].pc = "idle" /\ frame'[g].pc = "getToken")
  => UNCHANGED <<session, resCookies, tokens>>

C14_UniformFailure ==
  [][\A g \in Guards : C14_Undecodable(g) /\ C14_Lookup(g) /\ C14_Decoded(g)]_vars

\* the right series of a live token of this guard was presented with a value
\* that was never issued
C14_Witness ==
  \E g \in Guards :
    /\ PresentedCookie(g) = Encode("s1", 2)
    /\ guard[g].name = "web"
    /\ getTokenBySeries("s1") # NoRow
    /\ calls[g].getTokenBySeries = 1
    /\ events[g] = <<AttemptedEvent, FailedEvent>>
    /\ history[g] =
         <<[op |-> "authenticate", outcome |-> "raise", value |-> InvalidAuthSession]>>

\* what the authenticate() call made in this step did, read from its effects
\* and not from what the caller was handed
CallEnds(g) == Len(history'[g]) = Len(history[g]) + 1
WasCached(g) == frame[g].pc = "idle" /\ guard[g].authenticationAttempted
NewEvent(g, type) ==
  /\ Len(events'[g]) > Len(events[g])
  /\ LastEvent(g).type = type

ReturnedPrincipal(g) ==
  \/ WasCached(g) /\ guard[g].user # NoUser
  \/ /\ frame[g].pc \in {"findSessionUser", "findTokenUser"}
     /\ NewEvent(g, "authentication_succeeded")
  \/ /\ frame[g].pc = "updateToken"
     /\ calls'[g].cookieWrite > calls[g].cookieWrite

RaisedAuthFailure(g) ==
  \/ WasCached(g) /\ guard[g].user = NoUser
  \/ ~WasCached(g) /\ NewEvent(g, "authentication_failed")

\* C15: check() returns true exactly when the authenticate() call it makes
\* returns a principal, false exactly when that call raises InvalidAuthSession,
\* and raises what that call raised in every other case: the configuration
\* error of a missing session, a provider failure.
C15_Step(g) ==
  LET seen == history'[g][Len(history'[g])] IN
  (CallEnds(g) /\ seen.op = "check") =>
    /\ ReturnedPrincipal(g) <=> seen = [op |-> "check", outcome |-> "return", value |-> "true"]
    /\ RaisedAuthFailure(g) <=> seen = [op |-> "check", outcome |-> "return", value |-> "false"]
    /\ (~ReturnedPrincipal(g) /\ ~RaisedAuthFailure(g)) =>
         /\ seen.outcome = "raise"
         /\ seen.value =
              IF frame[g].pc = "idle" THEN RuntimeException ELSE ProviderError

C15_CheckConversion == [][\A g \in Guards : C15_Step(g)]_vars

\* check() let the missing-session error through, and answered false when asked
\* again
C15_Witness ==
  \E g \in Guards :
    history[g] = <<[op |-> "check", outcome |-> "raise", value |-> RuntimeException],
                   [op |-> "check", outcome |-> "return", value |-> "false"]>>

\* the call that ends in this step failed with an auth-failure kind
EndsInAuthFailure(g) ==
  LET seen == history'[g][Len(history'[g])] IN
  /\ CallEnds(g)
  /\ \/ seen = [op |-> "authenticate", outcome |-> "raise", value |-> InvalidAuthSession]
     \/ seen = [op |-> "check", outcome |-> "return", value |-> "false"]

\* C16: every authenticate() or check() call that fails with an auth-failure
\* kind, the first on the guard or a later one, emits authentication_failed
\* before it raises or returns false.
C16_Step(g) == EndsInAuthFailure(g) => NewEvent(g, "authentication_failed")

C16_FailedEventAlways == [][\A g \in Guards : C16_Step(g)]_vars

\* the same, for the first call on a guard only
C16_FirstCallOnly ==
  [][\A g \in Guards : (history[g] = <<>>) => C16_Step(g)]_vars

\* login(user, remember) on guard g returns in this step
LoginReturns(g) ==
  /\ CallEnds(g)
  /\ history'[g][Len(history'[g])] =
       [op |-> "login", outcome |-> "return", value |-> frame[g].user]

\* C17: after login(user, remember) returns, the guard is in the authenticated
\* state: isAuthenticated is true, user is the logged-in principal and
\* isLoggedOut is false.
C17_Step(g) ==
  LoginReturns(g) =>
    /\ guard'[g].isAuthenticated
    /\ guard'[g].user = frame[g].user
    /\ ~guard'[g].isLoggedOut

C17_LoginAuthenticates == [][\A g \in Guards : C17_Step(g)]_vars

\* the same without isAuthenticated
C17_UserSet ==
  [][\A g \in Guards :
       LoginReturns(g) => guard'[g].user = frame[g].user /\ ~guard'[g].isLoggedOut]_vars

\* login on guard g has returned user u
LoggedIn(g, u) ==
  \E i \in 1..Len(history[g]) :
    history[g][i] = [op |-> "login", outcome |-> "return", value |-> u]

\* the first authenticate() on guard h ends in this step, not by a provider failure
FirstAuthenticateEnds(h) ==
  /\ history[h] = <<>> /\ history'[h] # <<>>
  /\ history'[h][1].op = "authenticate"
  /\ ~ProviderFailed(h)

\* C18: login(user) on a guard named G stores the user's id in the session
\* under auth_<G> and changes the session identifier; the session still holds
\* the id when login returns, and a new guard named G on that session
\* (the id it reads from the session is the one login stored) authenticates as
\* user through the session path (viaRemember false).
C18_Stored(g) ==
  LET c == guard[g].ctx IN
  ( /\ frame[g].pc = "createUser"
    /\ \/ frame'[g].pc = "createToken"
       \/ LoginReturns(g) )
  => /\ session'[c].data[<<"auth", guard[g].name>>] = frame[g].user
     /\ session'[c].sessionId # session[c].sessionId

C18_Returned(g) ==
  LoginReturns(g) =>
    session'[guard[g].ctx].data[<<"auth", guard[g].name>>] = frame[g].user

C18_Fresh(g, h) ==
  LET u == session[guard[h].ctx].data[<<"auth", guard[h].name>>] IN
  ( /\ g # h
    /\ FirstAuthenticateEnds(h)
    /\ guard[h].name = guard[g].name
    /\ session[guard[h].ctx] = session[guard[g].ctx]
    /\ frame'[h].loggedInUserId = u
    /\ LoggedIn(g, u)
    /\ u \in users )
  => /\ history'[h] = <<[op |-> "authenticate", outcome |-> "return", value |-> u]>>
     /\ guard'[h].user = u
     /\ guard'[h].isAuthenticated
     /\ ~guard'[h].viaRemember
     /\ calls'[h].getTokenBySeries = 0

C18_LoginWritesSession ==
  [][\A g, h \in Guards : C18_Stored(g) /\ C18_Returned(g) /\ C18_Fresh(g, h)]_vars

\* u2 logged in on guard "api" without remember-me; the next request, on the
\* same session, was authenticated as u2 from the session
C18_Witness ==
  /\ history[First] = <<[op |-> "login", outcome |-> "return", value |-> "u2"]>>
  /\ guard[First].name = "api"
  /\ ~frame[First].remember
  /\ session[guard[First].ctx].sessionId = 2
  /\ session[guard[Second].ctx] = session[guard[First].ctx]
  /\ history[Second] = <<[op |-> "authenticate", outcome |-> "return", value |-> "u2"]>>
  /\ ~guard[Second].viaRemember

\* C19: login(user, remember=true) on a guard with a token provider adds
\* exactly one token to the store, with userId the user's id and guard the
\* guard's name, and sets in remember_<name> a cookie whose value verifies
\* against that token's stored hash; a new guard of that name, with no user id
\* in its session, that presents this cookie before the clock has moved
\* authenticates as user with viaRemember true and leaves the stored hash as it
\* was.
C19_Minted(g) ==
  LET cookie == resCookies'[guard[g].ctx][<<"remember", guard[g].name>>]
      d == decode(cookie.value)
  IN
  (LoginReturns(g) /\ frame[g].remember) =>
    /\ guard[g].rememberMeTokenProvider
    /\ cookie.kind = "set"
    /\ d # NoDecoded
    /\ tokens[d.series] = NoRow
    /\ tokens'[d.series] # NoRow
    /\ \A t \in SeriesIds \ {d.series} : tokens'[t] = tokens[t]
    /\ tokens'[d.series].userId = frame[g].user
    /\ tokens'[d.series].guard = guard[g].name
    /\ verify(tokens'[d.series], d.value)

C19_Presented(g, h) ==
  LET issued == resCookies[guard[g].ctx][<<"remember", guard[g].name>>]
      d == decode(issued.value)
      row == tokens[d.series]
  IN
  ( /\ g # h
    /\ FirstAuthenticateEnds(h)
    /\ guard[h].name = guard[g].name
    /\ frame'[h].loggedInUserId = NoUser
    /\ issued.kind = "set"
    /\ reqCookies[guard[h].ctx][<<"remember", guard[h].name>>] = issued.value
    /\ d # NoDecoded
    /\ row # NoRow
    /\ LoggedIn(g, row.userId)
    /\ verify(row, d.value)
    /\ row.createdAt = now
    /\ row.userId \in users )
  => /\ history'[h] =
          <<[op |-> "authenticate", outcome |-> "return", value |-> row.userId]>>
     /\ guard'[h].viaRemember
     /\ guard'[h].isAuthenticated
     /\ tokens'[d.series] = row
     /\ calls'[h].updateTokenBySeries = 0

C19_RememberLogin ==
  [][\A g, h \in Guards : C19_Minted(g) /\ C19_Presented(g, h)]_vars

\* u2 logged in with remember-me; the next request came with a new session and
\* the cookie just issued, and was authenticated as u2 from the token, whose
\* hash is the one login stored
C19_Witness ==
  /\ history[First] = <<[op |-> "login", outcome |-> "return", value |-> "u2"]>>
  /\ frame[First].remember
  /\ tokens["s2"] # NoRow
  /\ tokens["s2"].userId = "u2"
  /\ tokens["s2"].hash = Hash(3)
  /\ reqCookies[guard[Second].ctx][rememberMeKeyName(Second)] = Encode("s2", 3)
  /\ now = 0
  /\ history[Second] = <<[op |-> "authenticate", outcome |-> "return", value |-> "u2"]>>
  /\ guard[Second].viaRemember
  /\ calls[Second].updateTokenBySeries = 0

\* C20: login(user, remember=true) on a guard without a token provider raises
\* a configuration error (not InvalidAuthSession); no token is created, no
\* remember-me cookie is set, login_succeeded is not emitted and the guard's
\* user stays as it was, unset.
C20_Step(g) ==
  ( /\ frame[g].pc = "createUser" /\ frame'[g].pc # "createUser"
    /\ frame[g].remember
    /\ ~guard[g].rememberMeTokenProvider
    /\ ~ProviderFailed(g) )
  => /\ history'[g] =
          Append(history[g],
                 [op |-> "login", outcome |-> "raise", value |-> RuntimeException])
     /\ RuntimeException # InvalidAuthSession
     /\ events'[g] = events[g]
     /\ guard'[g] = guard[g]
     /\ guard[g].user = NoUser => guard'[g].user = NoUser
     /\ UNCHANGED <<tokens, resCookies, nextSecret>>

C20_NoProviderAtLogin == [][\A g \in Guards : C20_Step(g)]_vars

\* the login was refused for want of a token provider, on a request that had a
\* session
C20_Witness ==
  /\ history[First] =
       <<[op |-> "login", outcome |-> "raise", value |-> RuntimeException]>>
  /\ frame[First].remember
  /\ ~guard[First].rememberMeTokenProvider
  /\ session[guard[First].ctx].exists
  /\ events[First] = <<Event("login_attempted", "none")>>
  /\ guard[First].user = NoUser
  /\ tokens["s2"] = NoRow

\* an authenticate() call that ran (not answered from the guard's cached state)
\* raises in this step
AuthenticateRaises(g) ==
  /\ CallEnds(g)
  /\ ~WasCached(g)
  /\ history'[g][Len(history'[g])].op = "authenticate"
  /\ history'[g][Len(history'[g])].outcome = "raise"

SucceededEvents(g) ==
  {i \in 1..Len(events'[g]) : events'[g][i].type = "authentication_succeeded"}

\* C25: whenever an authenticate() call raises, whatever the reason, the guard
\* is not marked authenticated (isAuthenticated false, user unset), the call
\* emitted no authentication_succeeded, and the session holds no user id written
\* by the call (it holds what the call read from it).
C25_Step(g) ==
  LET c == guard[g].ctx IN
  AuthenticateRaises(g) =>
    /\ ~guard'[g].isAuthenticated
    /\ guard'[g].user = NoUser
    /\ SucceededEvents(g) = {}
    /\ session'[c].data[sessionKeyName(g)] = frame'[g].loggedInUserId

C25_Atomic == [][\A g \in Guards : C25_Step(g)]_vars

\* the same for every raise but the one of a failed rotation write
C25_ExceptRotationWrite ==
  [][\A g \in Guards : frame[g].pc # "updateToken" => C25_Step(g)]_vars

\* C27: the rotation comparison is strict.  A valid token used at exactly
\* updatedAt + 60 seconds is not rotated: no updateTokenBySeries call, the row
\* unchanged, the presented cookie re-issued; a rotation is started only when
\* the clock is strictly later than updatedAt + 60 seconds.
C27_Step(g) ==
  LET f == frame[g].found
      c == guard[g].ctx
  IN
  /\ ( /\ frame[g].pc = "findTokenUser" /\ frame'[g].pc # "findTokenUser"
       /\ f.userId \in users
       /\ ~ProviderFailed(g)
       /\ now = f.updatedAt + Grace )
     => /\ frame'[g].pc = "idle"
        /\ calls'[g].updateTokenBySeries = 0
        /\ guard'[g].user = f.userId
        /\ resCookies'[c][rememberMeKeyName(g)] = SetCookie(frame[g].rememberMeCookie)
        /\ UNCHANGED <<tokens, nextSecret>>
  /\ (frame[g].pc = "findTokenUser" /\ frame'[g].pc = "updateToken")
     => now > f.updatedAt + Grace

C27_StrictComparison == [][\A g \in Guards : C27_Step(g)]_vars

\* the minted token was used at second 60 exactly and was left alone
C27_Witness ==
  \E g \in Guards :
    /\ frame[g].found = fromRow(toRow(FirstToken(TokenAge)))
    /\ frame[g].currentTime = FirstToken(TokenAge).updatedAt + Grace
    /\ guard[g].viaRemember
    /\ ~Rotated(g)
    /\ tokens["s1"] = toRow(FirstToken(TokenAge))
    /\ IssuedCookie(g) = SetCookie(ValidCookie)
    /\ history[g] # <<>>

\* guard g has completed a rotation and its result is what the store holds
RotationStands(g) ==
  /\ Rotated(g)
  /\ frame[g].pc = "idle"
  /\ tokens[frame[g].found.series] = toRow(frame[g].token)

\* C28: once a rotation by a single request has completed, exactly the newly
\* issued secret is valid for the series: the cookie written to the rotating
\* request's response verifies against the stored hash and the presented one no
\* longer does; a later request presenting the new cookie is authenticated, a
\* later request presenting the old one fails with InvalidAuthSession.
C28_Rotation(g) ==
  LET c == guard[g].ctx
      s == frame[g].found.series
      issued == resCookies'[c][rememberMeKeyName(g)]
  IN
  (frame[g].pc = "updateToken" /\ frame'[g].pc = "idle") =>
    /\ issued.kind = "set"
    /\ decode(issued.value).series = s
    /\ verify(tokens'[s], decode(issued.value).value)
    /\ ~verify(tokens'[s], frame[g].decodedToken.value)
    /\ tokens'[s].hash # frame[g].found.hash

C28_Later(g, h) ==
  LET new == resCookies[guard[g].ctx][rememberMeKeyName(g)].value
      old == reqCookies[guard[g].ctx][rememberMeKeyName(g)]
      row == tokens[frame[g].found.series]
  IN
  ( /\ g # h
    /\ RotationStands(g)
    /\ FirstAuthenticateEnds(h)
    /\ frame'[h].loggedInUserId = NoUser
    /\ row.userId \in users )
  => /\ PresentedCookie(h) = new =>
          /\ history'[h] =
               <<[op |-> "authenticate", outcome |-> "return", value |-> row.userId]>>
          /\ guard'[h].viaRemember
     /\ PresentedCookie(h) = old =>
          /\ history'[h] =
               <<[op |-> "authenticate", outcome |-> "raise",
                  value |-> InvalidAuthSession]>>
          /\ ~guard'[h].isAuthenticated

C28_OnlyNewSecret ==
  [][\A g, h \in Guards : C28_Rotation(g) /\ C28_Later(g, h)]_vars

\* the first request rotated the token; the old cookie, presented again by a
\* later request while the rotated row stood, was refused
C28_Witness ==
  /\ RotationStands(First)
  /\ history[First] = <<[op |-> "authenticate", outcome |-> "return", value |-> "u1"]>>
  /\ IssuedCookie(First) = SetCookie(Encode("s1", 3))
  /\ PresentedCookie(Second) = ValidCookie
  /\ calls[Second].getTokenBySeries = 1
  /\ history[Second] =
       <<[op |-> "authenticate", outcome |-> "raise", value |-> InvalidAuthSession]>>

\* the cookie the rotation issued was accepted from a later request
C28_NewCookieAccepted ==
  /\ Rotated(First)
  /\ PresentedCookie(Second) = Encode("s1", 3)
  /\ history[Second] = <<[op |-> "authenticate", outcome |-> "return", value |-> "u1"]>>
  /\ guard[Second].viaRemember

\* C21: a failed explicit login changes nothing.  verifyCredentials and attempt
\* with credentials the provider rejects, and loginViaId with an id the
\* provider cannot find, emit login_failed (and nothing else, no
\* login_attempted) and raise InvalidCredentials; session, cookies, token store
\* and the guard's fields are as before the call.
C21_Called(g) ==
  (frame[g].pc = "idle" /\ frame'[g].pc \in {"verifyCredentials", "findLoginUser"})
  => /\ events'[g] = events[g]
     /\ UNCHANGED <<session, reqCookies, resCookies, tokens, guard>>

C21_Rejected(g) ==
  ( /\ frame[g].pc \in {"verifyCredentials", "findLoginUser"}
    /\ frame'[g].pc # frame[g].pc
    /\ ~ProviderFailed(g)
    /\ \/ frame[g].user \notin users
       \/ frame[g].pc = "verifyCredentials" /\ frame[g].password # "secret" )
  => /\ history'[g] =
          Append(history[g], [op |-> frame[g].op, outcome |-> "raise",
                              value |-> InvalidCredentials])
     /\ frame[g].op \in {"verifyCredentials", "attempt", "loginViaId"}
     /\ events'[g] = Append(events[g], [type |-> "login_failed", token |-> "none"])
     /\ UNCHANGED <<session, reqCookies, resCookies, tokens, guard>>

C21_FailedLoginChangesNothing ==
  [][\A g \in Guards : C21_Called(g) /\ C21_Rejected(g)]_vars

\* attempt with a wrong password, then loginViaId with the id of a deleted
\* account, both refused
C21_Witness ==
  /\ Len(history[First]) = 2
  /\ history[First][1] =
       [op |-> "attempt", outcome |-> "raise", value |-> InvalidCredentials]
  /\ history[First][2] =
       [op |-> "loginViaId", outcome |-> "raise", value |-> InvalidCredentials]
  /\ events[First] = <<Event("login_failed", "none"), Event("login_failed", "none")>>
  /\ guard[First].user = NoUser
  /\ session[guard[First].ctx].sessionId = 1

\* logout() on guard g runs its synchronous part in this step
LogoutStep(g) ==
  /\ frame[g].pc = "idle"
  /\ frame'[g].op = "logout"
  /\ CallEnds(g) \/ frame'[g].pc = "deleteToken"

\* logout() on guard g returns in this step
LogoutReturns(g) ==
  /\ CallEnds(g)
  /\ history'[g][Len(history'[g])] =
       [op |-> "logout", outcome |-> "return", value |-> "none"]

\* logout on guard g has returned
LoggedOut(g) ==
  \E i \in 1..Len(history[g]) :
    history[g][i] = [op |-> "logout", outcome |-> "return", value |-> "none"]

\* C22: after logout() on a guard with a token provider and a decodable
\* remember-me cookie on the request, whether or not its value verifies, the
\* session has no value under auth_<name>, the cookie is cleared and the store
\* holds no token of the cookie's series; a new guard presenting the same
\* session and the same cookie fails with InvalidAuthSession.
C22_Returned(g) ==
  LET c == guard[g].ctx
      d == decode(PresentedCookie(g))
  IN
  ( /\ LogoutReturns(g)
    /\ guard[g].rememberMeTokenProvider
    /\ d # NoDecoded )
  => /\ frame[g].pc = "deleteToken"
     /\ session'[c].data[<<"auth", guard[g].name>>] = NoUser
     /\ resCookies'[c][<<"remember", guard[g].name>>] = Cleared
     /\ tokens'[d.series] = NoRow

C22_Fresh(g, h) ==
  ( /\ g # h
    /\ LoggedOut(g)
    /\ guard[g].rememberMeTokenProvider
    /\ decode(PresentedCookie(g)) # NoDecoded
    /\ FirstAuthenticateEnds(h)
    /\ guard[h].name = guard[g].name
    /\ session[guard[h].ctx] = session[guard[g].ctx]
    /\ PresentedCookie(h) = PresentedCookie(g) )
  => /\ history'[h] =
          <<[op |-> "authenticate", outcome |-> "raise", value |-> InvalidAuthSession]>>
     /\ ~guard'[h].isAuthenticated

C22_LogoutRevokes ==
  [][\A g, h \in Guards : C22_Returned(g) /\ C22_Fresh(g, h)]_vars

\* the request carried the series of the minted token with a value that was
\* never issued; logout removed the token, and the same session and cookie were
\* then refused
C22_Witness ==
  /\ LoggedOut(First)
  /\ PresentedCookie(First) = Encode("s1", 2)
  /\ tokens["s1"] = NoRow
  /\ IssuedCookie(First) = Cleared
  /\ PresentedCookie(Second) = Encode("s1", 2)
  /\ session[guard[Second].ctx] = session[guard[First].ctx]
  /\ history[Second] =
       <<[op |-> "authenticate", outcome |-> "raise", value |-> InvalidAuthSession]>>

\* C23: logout() never raises on account of the remember-me cookie.  With no
\* cookie, with an undecodable cookie, or with no token provider registered, on
\* a request that has a session, it clears the session key and the cookie,
\* emits logged_out, returns, and leaves the token store unchanged.
C23_Step(g) ==
  LET c == guard[g].ctx
      cookie == PresentedCookie(g)
  IN
  ( /\ LogoutStep(g)
    /\ session[c].exists
    /\ \/ cookie = NoCookie
       \/ decode(cookie) = NoDecoded
       \/ ~guard[g].rememberMeTokenProvider )
  => /\ LogoutReturns(g)
     /\ frame'[g].pc = "idle"
     /\ session'[c].data[<<"auth", guard[g].name>>] = NoUser
     /\ resCookies'[c][<<"remember", guard[g].name>>] = Cleared
     /\ events'[g] = Append(events[g], [type |-> "logged_out", token |-> "none"])
     /\ UNCHANGED tokens

C23_LogoutTolerant == [][\A g \in Guards : C23_Step(g)]_vars

\* a guard without token provider logged out a request that carried the valid
\* cookie of a stored token: the token is still there
C23_Witness ==
  /\ history[First] = <<[op |-> "logout", outcome |-> "return", value |-> "none"]>>
  /\ ~guard[First].rememberMeTokenProvider
  /\ PresentedCookie(First) = ValidCookie
  /\ guard[First].name = "web"
  /\ tokens["s1"] = toRow(FirstToken(TokenAge))
  /\ IssuedCookie(First) = Cleared
  /\ events[First] = <<Event("logged_out", "none")>>

\* C24: authenticateAsClient(user) returns exactly the pair auth_<name>, id of
\* user and changes nothing: session, cookies, token store and guard fields are
\* as before and no event is emitted; a new guard of that name whose session
\* was seeded with the pair authenticates as that user through the session
\* path.
C24_Call(g) ==
  ( \/ frame[g].pc = "idle" /\ frame'[g].pc = "clientUser"
    \/ frame[g].pc = "clientUser" /\ frame'[g].pc # "clientUser" )
  => /\ events'[g] = events[g]
     /\ calls'[g] = calls[g]
     /\ UNCHANGED <<session, reqCookies, resCookies, tokens, guard>>

C24_Returned(g) ==
  (frame[g].pc = "clientUser" /\ frame'[g].pc # "clientUser" /\ ~ProviderFailed(g))
  => /\ history'[g] =
          Append(history[g], [op |-> "authenticateAsClient", outcome |-> "return",
                              value |-> frame[g].user])
     /\ frame'[g].client = <<(<<"auth", guard[g].name>>), frame[g].user>>

C24_Seeded(g, h) ==
  LET u == frame[g].user IN
  ( /\ g # h
    /\ frame[g].client # <<>>
    /\ FirstAuthenticateEnds(h)
    /\ guard[h].name = guard[g].name
    /\ session[guard[h].ctx].data =
         [k \in SessionKeys |-> IF k = <<"auth", guard[g].name>> THEN u ELSE NoUser]
    /\ frame'[h].loggedInUserId = u
    /\ u \in users )
  => /\ history'[h] = <<[op |-> "authenticate", outcome |-> "return", value |-> u]>>
     /\ guard'[h].user = u
     /\ guard'[h].isAuthenticated
     /\ ~guard'[h].viaRemember

C24_ClientSession ==
  [][\A g, h \in Guards : C24_Call(g) /\ C24_Returned(g) /\ C24_Seeded(g, h)]_vars

\* guard "api" built the pair for u2 on a request whose own session stayed
\* empty; a request seeded with the pair was authenticated as u2
C24_Witness ==
  /\ history[First] =
       <<[op |-> "authenticateAsClient", outcome |-> "return", value |-> "u2"]>>
  /\ guard[First].name = "api"
  /\ frame[First].client = <<(<<"auth", "api">>), "u2">>
  /\ session[guard[First].ctx].data[<<"auth", "api">>] = NoUser
  /\ events[First] = <<>>
  /\ history[Second] = <<[op |-> "authenticate", outcome |-> "return", value |-> "u2"]>>
  /\ ~guard[Second].viaRemember
  /\ session[guard[Second].ctx].data[<<"auth", "api">>] = "u2"

\* an authenticate() call, made directly or through check(), has finished on g
AuthenticateFinished(g) ==
  \E i \in 1..Len(history[g]) : history[g][i].op \in Ops

\* C29: the state of a guard is terminal once attempted.
\* authenticationAttempted never returns to false, and once an authenticate()
\* call has finished no later operation on the guard (authenticate, check,
\* login, loginViaId, attempt, verifyCredentials, logout, authenticateAsClient)
\* changes isAuthenticated or viaRemember.
C29_Step(g) ==
  /\ guard[g].authenticationAttempted => guard'[g].authenticationAttempted
  /\ AuthenticateFinished(g) =>
       /\ guard'[g].isAuthenticated = guard[g].isAuthenticated
       /\ guard'[g].viaRemember = guard[g].viaRemember

C29_TerminalOnceAttempted == [][\A g \in Guards : C29_Step(g)]_vars

\* authenticated from the remember-me token, then logged out: the guard's flags
\* are those authenticate() left
C29_Witness ==
  /\ Len(history[First]) = 2
  /\ history[First][1] = [op |-> "authenticate", outcome |-> "return", value |-> "u1"]
  /\ history[First][2] = [op |-> "logout", outcome |-> "return", value |-> "none"]
  /\ guard[First].authenticationAttempted
  /\ guard[First].isAuthenticated
  /\ guard[First].viaRemember

EventsOfType(g, type) == {i \in 1..Len(events[g]) : events[g][i].type = type}

\* C30: on any guard and for any sequence of operations,
\* authentication_attempted is emitted at most once; authentication_succeeded
\* and authentication_failed are emitted only after it, each at most once, and
\* never both.
C30_AuthEventsOnce ==
  \A g \in Guards :
    LET attempted == EventsOfType(g, "authentication_attempted")
        outcomes == EventsOfType(g, "authentication_succeeded")
                      \cup EventsOfType(g, "authentication_failed")
    IN /\ Cardinality(attempted) <= 1
       /\ Cardinality(outcomes) <= 1
       /\ \A i \in outcomes : \E j \in attempted : j < i

\* check() failed and authenticate() was called after it: one attempt and one
\* failure were announced
C30_Witness ==
  /\ Len(history[First]) = 2
  /\ history[First][1] = [op |-> "check", outcome |-> "return", value |-> "false"]
  /\ history[First][2] =
       [op |-> "authenticate", outcome |-> "raise", value |-> InvalidAuthSession]
  /\ events[First] = <<AttemptedEvent, FailedEvent>>

\* the caller of this call got a principal (or true from check())
GotPrincipal(seen) == seen.outcome = "return" /\ seen.value # "false"

\* C26: a second authenticate() or check() call that starts on a guard while
\* the first call is suspended at an awaited provider lookup has the outcome
\* the first call eventually has: when the first call returns a principal, the
\* second has returned that principal (true, from check()); the second fails
\* only when the first fails.
C26_Step(g) ==
  LET first == history'[g][Len(history'[g])] IN
  ( /\ frame[g].pc \in InFlight /\ frame'[g].pc = "idle"
    /\ CallEnds(g)
    /\ GotPrincipal(first) )
  => \A i \in 1..Len(history[g]) :
       /\ GotPrincipal(history[g][i])
       /\ history[g][i].op = "authenticate" => history[g][i].value = guard'[g].user

C26_ReentrantSameOutcome == [][\A g \in Guards : C26_Step(g)]_vars

LogoutRuns(g) ==
  \/ LogoutStep(g)
  \/ frame[g].pc = "deleteToken" /\ frame'[g].pc # "deleteToken"

\* the call that ends on guard g in this step
EndingCall(g) == history'[g][Len(history'[g])]

\* the call that ends in this step reported user u (true, from check())
Reported(g, u) ==
  /\ EndingCall(g).outcome = "return"
  /\ EndingCall(g).value = IF EndingCall(g).op = "check" THEN "true" ELSE u

\* logout() leaves every field of the guard as it was
C32_FieldsKept(g) == LogoutRuns(g) => guard'[g] = guard[g]

\* C32, as claimed: logout() changes none of the guard's request-scoped fields
\* (user, isAuthenticated, viaRemember, authenticationAttempted, isLoggedOut),
\* so on a guard that had authenticated or logged in, getUserOrFail(),
\* authenticate() and check() called after logout() on the same instance still
\* report the user.
C32_Claimed(g) ==
  /\ C32_FieldsKept(g)
  /\ ( /\ LoggedOut(g)
       /\ guard[g].user # NoUser
       /\ CallEnds(g)
       /\ EndingCall(g).op \in Ops \cup {"getUserOrFail"} )
     => Reported(g, guard[g].user)

C32_Amended(g) ==
  /\ C32_FieldsKept(g)
  /\ ( /\ LoggedOut(g)
       /\ guard[g].user # NoUser
       /\ CallEnds(g)
       /\ \/ EndingCall(g).op = "getUserOrFail"
          \/ EndingCall(g).op \in Ops /\ WasCached(g) )
     => Reported(g, guard[g].user)

C32_LoginWitness ==
  /\ Len(history[First]) = 3
  /\ history[First][1] = [op |-> "login", outcome |-> "return", value |-> "u2"]
  /\ history[First][2] = [op |-> "logout", outcome |-> "return", value |-> "none"]
  /\ history[First][3] = [op |-> "getUserOrFail", outcome |-> "return", value |-> "u2"]
  /\ ~guard[First].authenticationAttempted

\* an authenticate() call, made directly or through check(), has failed on g
\* before a login on g returned
FailedThenLoggedIn(g) ==
  \E i, j \in 1..Len(history[g]) :
    /\ i < j
    /\ history[g][i].op \in Ops
    /\ history[g][i].outcome = "raise" \/ history[g][i].value = "false"
    /\ history[g][j].op = "login" /\ history[g][j].outcome = "return"

\* the user of the login that returned last on g
LastLogin(g) ==
  LET logins == {j \in 1..Len(history[g]) :
                   history[g][j].op = "login" /\ history[g][j].outcome = "return"}
      last == CHOOSE j \in logins : \A k \in logins : k <= j
  IN history[g][last].value

\* C33: after authenticate() has failed on a guard instance, a successful
\* login(user) on that instance makes every later authenticate() return user
\* and every later check() return true, without running the authentication
\* algorithm again (no event, no session, cookie or provider access) and while
\* isAuthenticated remains false.
C33_Step(g) ==
  ( /\ FailedThenLoggedIn(g)
    /\ CallEnds(g)
    /\ EndingCall(g).op \in Ops )
  => /\ Reported(g, LastLogin(g))
     /\ WasCached(g)
     /\ events'[g] = events[g]
     /\ calls'[g] = calls[g]
     /\ UNCHANGED <<session, resCookies, tokens>>
     /\ ~guard'[g].isAuthenticated

C33_LoginAfterFailure == [][\A g \in Guards : C33_Step(g)]_vars

\* the same on guards whose authenticate() did not fail in the rotation write
C33_ExceptRotationWrite ==
  [][\A g \in Guards : calls[g].updateTokenBySeries = 0 => C33_Step(g)]_vars

\* authenticate() found nobody, login(u2) returned, and authenticate() then
\* returned u2 on a guard that is not marked authenticated
C33_Reached ==
  /\ Len(history[First]) = 3
  /\ history[First][1] =
       [op |-> "authenticate", outcome |-> "raise", value |-> InvalidAuthSession]
  /\ history[First][2] = [op |-> "login", outcome |-> "return", value |-> "u2"]
  /\ history[First][3] = [op |-> "authenticate", outcome |-> "return", value |-> "u2"]
  /\ ~guard[First].isAuthenticated

\* login(user, remember=true) on guard g has raised the configuration error of
\* the missing token provider, and g has done nothing since
LoginRefused(g) ==
  /\ frame[g].pc = "idle"
  /\ frame[g].op = "login" /\ frame[g].remember
  /\ ~guard[g].rememberMeTokenProvider
  /\ history[g] # <<>>
  /\ history[g][Len(history[g])] =
       [op |-> "login", outcome |-> "raise", value |-> RuntimeException]
  /\ session[guard[g].ctx].exists

\* C34: when login(user, remember=true) raises the configuration error of the
\* missing token provider, the session has been written already: the user's id
\* is stored under auth_<name> and the session identifier has changed, so a new
\* guard of that name on that session authenticates as user although login()
\* failed.
C34_Raised(g) ==
  LET c == guard[g].ctx IN
  ( /\ frame[g].pc = "createUser" /\ frame'[g].pc = "idle"
    /\ frame[g].remember
    /\ ~guard[g].rememberMeTokenProvider
    /\ session[c].exists
    /\ ~ProviderFailed(g) )
  => /\ EndingCall(g) =
          [op |-> "login", outcome |-> "raise", value |-> RuntimeException]
     /\ session'[c].data[<<"auth", guard[g].name>>] = frame[g].user
     /\ session'[c].sessionId # session[c].sessionId

C34_Fresh(g, h) ==
  LET u == frame[g].user IN
  ( /\ g # h
    /\ LoginRefused(g)
    /\ FirstAuthenticateEnds(h)
    /\ guard[h].name = guard[g].name
    /\ session[guard[h].ctx] = session[guard[g].ctx]
    /\ u \in users )
  => /\ history'[h] = <<[op |-> "authenticate", outcome |-> "return", value |-> u]>>
     /\ guard'[h].user = u
     /\ guard'[h].isAuthenticated
     /\ ~guard'[h].viaRemember

C34_RefusedLoginWritesSession ==
  [][\A g, h \in Guards : C34_Raised(g) /\ C34_Fresh(g, h)]_vars

\* login(u2, remember) was refused on a guard without token provider; the next
\* request, on the session it left, was authenticated as u2
C34_Witness ==
  /\ LoginRefused(First)
  /\ Len(history[First]) = 1
  /\ frame[First].user = "u2"
  /\ guard[First].user = NoUser
  /\ session[guard[First].ctx].sessionId = 2
  /\ session[guard[Second].ctx] = session[guard[First].ctx]
  /\ history[Second] = <<[op |-> "authenticate", outcome |-> "return", value |-> "u2"]>>
  /\ guard[Second].isAuthenticated

\* guards a and b have different names and serve the same request
Neighbours(a, b) ==
  /\ a # b
  /\ guard[a].name # guard[b].name
  /\ guard[a].ctx = guard[b].ctx

\* guard a acts in this step
ActsOn(a) == frame'[a] # frame[a] \/ history'[a] # history[a]

\* the store holds no token minted for guard b
NoTokenOf(b) ==
  \A s \in SeriesIds : tokens[s] = NoRow \/ tokens[s].guard # guard[b].name

\* C35: guards with different names that share one session and one request do
\* not interfere through their keys.  No step of login, logout or authenticate
\* on guard A writes or clears auth_<B> in the session or remember_<B> among
\* the cookies; so after a login on A, with or without remember-me, a guard B
\* that has nothing of its own (no id under auth_<B>, and no cookie under
\* remember_<B> or no token minted for B) fails to authenticate.
C35_KeysKept(a, b) ==
  LET c == guard[b].ctx
      nameB == guard[b].name
  IN
  (Neighbours(a, b) /\ ActsOn(a)) =>
    /\ session'[c].data[<<"auth", nameB>>] = session[c].data[<<"auth", nameB>>]
    /\ resCookies'[c][<<"remember", nameB>>] = resCookies[c][<<"remember", nameB>>]
    /\ reqCookies'[c] = reqCookies[c]

C35_NoCrossLogin(a, b) ==
  LET c == guard[b].ctx
      nameB == guard[b].name
  IN
  ( /\ Neighbours(a, b)
    /\ \E u \in UserIds : LoggedIn(a, u)
    /\ FirstAuthenticateEnds(b)
    /\ session[c].data[<<"auth", nameB>>] = NoUser
    /\ reqCookies[c][<<"remember", nameB>>] = NoCookie \/ NoTokenOf(b) )
  => /\ history'[b] =
          <<[op |-> "authenticate", outcome |-> "raise", value |-> InvalidAuthSession]>>
     /\ ~guard'[b].isAuthenticated
     /\ guard'[b].user = NoUser

C35_NamesKeepApart ==
  [][\A a, b \in Guards : C35_KeysKept(a, b) /\ C35_NoCrossLogin(a, b)]_vars

\* guard "web" logged u2 in with remember-me; guard "api", on the same request
\* and presenting under remember_api the cookie of a token minted for "web",
\* looked the token up and was refused
C35_Witness ==
  /\ guard[First].ctx = guard[Second].ctx
  /\ guard[First].name = "web" /\ guard[Second].name = "api"
  /\ history[First] = <<[op |-> "login", outcome |-> "return", value |-> "u2"]>>
  /\ frame[First].remember
  /\ tokens["s2"] # NoRow
  /\ session[guard[First].ctx].data[<<"auth", "web">>] = "u2"
  /\ session[guard[First].ctx].data[<<"auth", "api">>] = NoUser
  /\ resCookies[guard[First].ctx][<<"remember", "web">>].kind = "set"
  /\ resCookies[guard[First].ctx][<<"remember", "api">>] = Untouched
  /\ reqCookies[guard[First].ctx][<<"remember", "api">>] = ValidCookie
  /\ calls[Second].getTokenBySeries = 1
  /\ history[Second] =
       <<[op |-> "authenticate", outcome |-> "raise", value |-> InvalidAuthSession]>>

\* what a read-only step of guard g leaves alone: the session, the cookies of
\* request and response, the token store, and the cookie and token-provider
\* calls counted for g
NothingWritten(g) ==
  /\ UNCHANGED <<session, reqCookies, resCookies, tokens, nextSecret>>
  /\ calls'[g].cookieRead = calls[g].cookieRead
  /\ calls'[g].cookieWrite = calls[g].cookieWrite
  /\ calls'[g].getTokenBySeries = calls[g].getTokenBySeries
  /\ calls'[g].updateTokenBySeries = calls[g].updateTokenBySeries

\* C36: a successful session-path authenticate() is read-only.  It does not
\* write or regenerate the session, does not set or clear the remember-me
\* cookie and does not call the token provider, even when the request carries
\* a remember-me cookie, and its authentication_succeeded event names no
\* token.
C36_Step(g) ==
  /\ (frame[g].pc = "idle" /\ frame'[g].pc = "findSessionUser") => NothingWritten(g)
  /\ ( /\ frame[g].pc = "findSessionUser"
       /\ CallEnds(g)
       /\ GotPrincipal(EndingCall(g)) )
     => /\ NothingWritten(g)
        /\ calls'[g].cookieWrite = 0
        /\ calls'[g].getTokenBySeries = 0 /\ calls'[g].updateTokenBySeries = 0
        /\ events'[g] =
             Append(events[g], [type |-> "authentication_succeeded", token |-> "none"])
        /\ ~guard'[g].viaRemember

C36_SessionPathReadOnly == [][\A g \in Guards : C36_Step(g)]_vars

\* the request carried a user id in the session and the valid cookie of a
\* stored token: authenticate() returned the session's user and touched
\* neither the cookie nor the token
C36_Witness ==
  \E g \in Guards :
    /\ history[g] = <<[op |-> "authenticate", outcome |-> "return", value |-> "u1"]>>
    /\ PresentedCookie(g) = ValidCookie
    /\ guard[g].rememberMeTokenProvider
    /\ ~guard[g].viaRemember
    /\ session[guard[g].ctx].sessionId = 1
    /\ IssuedCookie(g) = Untouched
    /\ tokens["s1"] = toRow(FirstToken(TokenAge))
    /\ calls[g].cookieRead = 0
    /\ calls[g].getTokenBySeries = 0
    /\ events[g] = <<AttemptedEvent, Event("authentication_succeeded", "none")>>
====
